---- MODULE Spec2Model ----
(***************************************************************************)
(* Change-aware caching and parallel dispatch of the audio tool:           *)
(* the 'check' command (modules/integrity_check.py), its cache decision,   *)
(* its worker pool, its batch writer and the advisory store lock.          *)
(***************************************************************************)
EXTENDS Integers, Sequences, FiniteSets, TLC

\* ------------------------------------------------------------------ bounds
\* Largest modification time a file reaches (files start at mtime 1).
MaxMtime == 2
\* Number of changes other programs make to the files during the runs.
MaxFsEvents == 1

Files == {"a.flac", "b.flac"}
Runs == {"r1", "r2"}
\* Working directories a process may be started in.
Dirs == {"d1", "d2"}
Contents == {"good", "bad"}
Statuses == {"PASSED", "FAILED"}
Tables == {"passed_files", "failed_files"}
\* Processes that run lock-guarded sections of the commands.
SecProcs == {"p1", "p2"}

\* ------------------------------------------------------------------ state
VARIABLES
    fs,           \* filesystem: file -> [exists, mtime, content]
    fsEvents,     \* number of changes other programs made to the files
    store,        \* committed rows: table -> (path -> row)
    backup,       \* content of the .db.bak copy
    dbWriter,     \* run holding the database write transaction, or "none"
    lockHolders,  \* lock file (one per working directory) -> processes holding flock
    cwd,          \* run -> working directory the process was started in
    target,       \* run -> the path argument: the music directory or one file
    pc,           \* run -> position of the main process in check_integrity
    audio_files,  \* run -> the enumerated files
    results,      \* run -> the in-memory results list
    txn,          \* run -> rows as seen inside the open write transaction
    widx,         \* run -> index of the next result the batch writer handles
    abort,        \* run -> the exception that ended the run ("" when none)
    tpc,          \* run -> file -> position of the worker task in process_file
    tstat,        \* run -> file -> current_mtime read by determine_action
    tdec,         \* run -> file -> the decision determine_action returned
    tseen,        \* run -> file -> the rows stored for the path at the decision (history)
    tres,         \* run -> file -> the tuple process_file returned
    toolCalls,    \* run -> file -> invocations of check_single_file
    thash,        \* run -> file -> content the validation ran on (history)
    startFs,      \* run -> the filesystem as enumerated (history)
    startStore,   \* run -> the committed rows when the run started (history)
    after,        \* run -> the runs that had ended when it started (history)
    call,         \* arguments of a call of a decision function
    ret,          \* what that call returned
    secPc,        \* process -> position relative to a lock-guarded section
    secKind,      \* process -> the lock-guarded section it is running
    secExit,      \* process -> how it left the section
    pureFn,       \* the function a call of a pure function is made to
    toolArg,      \* check_single_file: the path and what the ffmpeg run does
    toolRet,      \* check_single_file: what the call did (returned or raised)
    dbArg,        \* initialize_database: the module and the database file before
    dbOnce,       \* initialize_database: the database file after one call
    dbTwice,      \* initialize_database: the database file after a second call
    args,         \* run -> the command line: [cmd, verbose, recheck]
    cstore,       \* committed rows of file_tracker and audio_metadata
    wrow,         \* run -> file -> the row the task's SELECT fetched
    wres,         \* run -> file -> the tuple track_file or process_file returned
    extracted_data, \* run -> the rows collected for the batch update
    counts,       \* run -> the counters of the summary
    gc,           \* run -> the cleanup_database pass: rows fetched, examined, deleted
    commits,      \* run -> commits of result rows made so far (history)
    printed,      \* run -> the parts of the report printed by the reporting step
    writes        \* statements that changed the database file so far (history)

vars == <<fs, fsEvents, store, backup, dbWriter, lockHolders, cwd, target, pc,
          audio_files, results, txn, widx, abort, tpc, tstat, tdec, tseen, tres,
          toolCalls, thash, startFs, startStore, after, call, ret, secPc, secKind,
          secExit, pureFn, toolArg, toolRet, dbArg, dbOnce, dbTwice, args, cstore,
          wrow, wres, extracted_data, counts, gc, commits, printed, writes>>

fsVars == <<fs, fsEvents>>
procVars == <<cwd, target>>
dbVars == <<store, backup, dbWriter>>
runVars == <<pc, audio_files, results, txn, widx, abort, startFs, startStore, after>>
decVars == <<call, ret>>
secVars == <<secPc, secKind, secExit>>
pureVars == <<pureFn, toolArg, toolRet, dbArg, dbOnce, dbTwice>>
cmdVars == <<args, cstore, wrow, wres, extracted_data, counts, gc, commits, printed,
            writes>>
auxVars == <<decVars, secVars, pureVars, cmdVars>>
taskVars == <<tpc, tstat, tdec, tseen, tres, toolCalls, thash>>

\* ------------------------------------------------------------------ values
\* content_hash is a history field: the content the row's status was computed
\* from. It is no column of the tables and no operator of the program reads it.
NoResult == [status |-> "None", mtime |-> 0, last_checked |-> "None",
             content_hash |-> "None"]
NoTuple == [arity |-> 0, action |-> "None", status |-> "None", message |-> "None",
            file_path |-> "None", update_mtime |-> 0]
NoDecision == [action |-> "None", stored_status |-> "None", current_mtime |-> 0]
NoTool == [status |-> "None", message |-> "None", file_path |-> "None"]
NoMetadata == [present |-> FALSE, last_checked |-> 0]
\* No row fetched from file_tracker or audio_metadata.
NoRow == [present |-> FALSE, mtime |-> 0, last_checked |-> 0]
NoCall == [module |-> "None", force_recheck |-> FALSE, found |-> FALSE, mtime |-> 0,
           row |-> NoResult, metadata |-> NoMetadata]
\* The tables of the database file: those of the check, track and metadata
\* commands, which share the file named by database.path.
AllTables == {"passed_files", "failed_files", "file_tracker", "audio_metadata"}
\* The database file before any table was created.
AbsentDb == [t \in AllTables |-> [exists |-> FALSE, rows |-> {}]]
EmptyTable == [f \in {} |-> NoResult]
\* What track_file and metadata_collector.process_file return: (action, data).
NoReturn == [action |-> "None", data |-> 0]
\* added_count, updated_count, unchanged_count, cached_count, extracted_count
\* and error_count before the first result.
NoCounts == [added |-> 0, updated |-> 0, unchanged |-> 0, cached |-> 0,
             extracted |-> 0, errors |-> 0]
\* A cleanup_database pass: the paths fetched and not yet examined, the paths
\* a DELETE was executed for, and as history whether each examined file was
\* on disk then and the rows at the start of the pass.
NoPass == [todo |-> {}, deleted |-> {}, seen |-> [f \in {} |-> FALSE],
           start |-> EmptyTable]
EmptyStore == [t \in Tables |-> EmptyTable]
Main(r) == <<r, "main">>
Worker(r, f) == <<r, f>>

\* ------------------------------------------------------------------ filesystem
\* os.path.getmtime: the stat result, raising FileNotFoundError when absent.
getmtime(fsys, file_path) ==
    [found |-> fsys[file_path].exists,
     mtime |-> IF fsys[file_path].exists THEN fsys[file_path].mtime ELSE 0]

\* check_integrity lines 195-204 with utils.get_audio_files: the files of a
\* target that is one audio file or the music directory.
get_audio_files(fsys, path) ==
    IF path = "dir" THEN {f \in Files : fsys[f].exists}
    ELSE {f \in {path} : fsys[f].exists}

\* ------------------------------------------------------------------ store
\* cursor.fetchone() of SELECT status, mtime FROM table WHERE file_path = ?
fetchone(tbl, file_path) ==
    IF file_path \in DOMAIN tbl THEN tbl[file_path] ELSE NoResult

\* DELETE FROM table WHERE file_path = ?
delete_row(tbl, file_path) ==
    [f \in (DOMAIN tbl) \ {file_path} |-> tbl[f]]

\* INSERT INTO table (file_path, mtime, status, last_checked) VALUES (...)
insert_row(tbl, file_path, row) ==
    [f \in (DOMAIN tbl) \cup {file_path} |-> IF f = file_path THEN row ELSE tbl[f]]

\* backup_database: shutil.copy2 of the database file to the .db.bak path.
backup_database(check_tables, other_tables) ==
    [exists |-> TRUE, store |-> check_tables, cstore |-> other_tables]

\* ------------------------------------------------------------------ lock
\* fcntl.flock(LOCK_EX) returns only when no other open file holds the lock.
flock_granted(holders) == holders = {}

\* LOCK_FILE = Path("database.lock"): resolved against the working directory.
LOCK_FILE(dir) == dir

acquire_lock(locks, dir, p) ==
    [locks EXCEPT ![LOCK_FILE(dir)] = @ \cup {p}]

release_lock(locks, dir, p) ==
    [locks EXCEPT ![LOCK_FILE(dir)] = @ \ {p}]

\* ------------------------------------------------------------------ decision
\* Variant of cached_lookup that consults passed_files only.
cached_lookup_passed_only(db, file_path, current_mtime) ==
    LET p == IF file_path \in DOMAIN db["passed_files"]
             THEN db["passed_files"][file_path] ELSE NoResult
    IN  IF p # NoResult /\ p.mtime = current_mtime
        THEN [action |-> "USE_CACHED", stored_status |-> p.status,
              current_mtime |-> current_mtime]
        ELSE [action |-> "RUN_FFMPEG", stored_status |-> "None",
              current_mtime |-> current_mtime]

\* Variant of cached_lookup that takes every row not newer than the file as
\* current (the comparison of the metadata module).
cached_lookup_not_newer(db, file_path, current_mtime) ==
    LET rows == {db[t][file_path] : t \in {u \in Tables : file_path \in DOMAIN db[u]}}
    IN  IF \E row \in rows : row.mtime <= current_mtime
        THEN [action |-> "USE_CACHED",
              stored_status |-> (CHOOSE row \in rows : row.mtime <= current_mtime).status,
              current_mtime |-> current_mtime]
        ELSE [action |-> "RUN_FFMPEG", stored_status |-> "None",
              current_mtime |-> current_mtime]

\* integrity_check.determine_action, lines 95-107: the first table that has a
\* row for the path decides.
cached_lookup(db, file_path, current_mtime) ==
    LET p == fetchone(db["passed_files"], file_path)
        q == fetchone(db["failed_files"], file_path)
        hit(row) == IF row.mtime = current_mtime
                    THEN [action |-> "USE_CACHED", stored_status |-> row.status,
                          current_mtime |-> current_mtime]
                    ELSE [action |-> "RUN_FFMPEG", stored_status |-> "None",
                          current_mtime |-> current_mtime]
    IN  IF p # NoResult THEN hit(p)
        ELSE IF q # NoResult THEN hit(q)
        ELSE [action |-> "RUN_FFMPEG", stored_status |-> "None",
              current_mtime |-> current_mtime]

\* Variant of determine_action that does not look at force_recheck.
determine_action_no_force(db, file_path, force_recheck, st) ==
    IF ~st.found
    THEN [action |-> "FILE_NOT_FOUND", stored_status |-> "None", current_mtime |-> 0]
    ELSE cached_lookup(db, file_path, st.mtime)

\* integrity_check.determine_action; st is the result of os.path.getmtime.
determine_action(db, file_path, force_recheck, st) ==
    IF force_recheck
    THEN IF st.found
         THEN [action |-> "RUN_FFMPEG", stored_status |-> "None",
               current_mtime |-> st.mtime]
         ELSE [action |-> "FILE_NOT_FOUND", stored_status |-> "None", current_mtime |-> 0]
    ELSE IF ~st.found
         THEN [action |-> "FILE_NOT_FOUND", stored_status |-> "None", current_mtime |-> 0]
         ELSE cached_lookup(db, file_path, st.mtime)

\* Outcomes of the ffmpeg subprocess for a file in a given state.
ToolOutcomes(file) ==
    {"timeout", "exception"} \cup
    (IF file.exists /\ file.content = "good" THEN {"clean"} ELSE {"stderr"})

\* Variant of check_single_file without the handler of subprocess.TimeoutExpired:
\* the exception leaves the function.
check_single_file_timeout_raises(file_path, outcome) ==
    CASE outcome = "clean"   -> [status |-> "PASSED", message |-> "", file_path |-> file_path]
      [] outcome = "stderr"  -> [status |-> "FAILED", message |-> "stderr", file_path |-> file_path]
      [] outcome = "timeout" -> [status |-> "TimeoutExpired", message |-> "raised",
                                 file_path |-> "None"]
      [] OTHER               -> [status |-> "FAILED", message |-> "exception",
                                 file_path |-> file_path]

\* integrity_check.check_single_file: (status, message, file_path).
check_single_file(file_path, outcome) ==
    CASE outcome = "clean"   -> [status |-> "PASSED", message |-> "", file_path |-> file_path]
      [] outcome = "stderr"  -> [status |-> "FAILED", message |-> "stderr", file_path |-> file_path]
      [] outcome = "timeout" -> [status |-> "FAILED", message |-> "FFmpeg timed out",
                                 file_path |-> file_path]
      [] OTHER               -> [status |-> "FAILED", message |-> "exception",
                                 file_path |-> file_path]

\* integrity_check.process_file, given the decision d and, for RUN_FFMPEG, the
\* tuple tool returned by check_single_file. arity is the length of the tuple.
process_file(d, file_path, tool) ==
    IF d.action = "USE_CACHED"
    THEN [arity |-> 5, action |-> "USE_CACHED", status |-> d.stored_status,
          message |-> "Cached result", file_path |-> file_path, update_mtime |-> 0]
    ELSE IF d.action = "RUN_FFMPEG"
    THEN [arity |-> 5, action |-> "RUN_FFMPEG", status |-> tool.status,
          message |-> tool.message, file_path |-> file_path,
          update_mtime |-> d.current_mtime]
    ELSE [arity |-> 4, action |-> "ERROR", status |-> "Unknown action",
          message |-> file_path, file_path |-> "None", update_mtime |-> 0]

\* ------------------------------------------------------------------ collection
\* check_integrity line 217: the five-name unpacking of a worker's tuple.
unpack_ok(res) == res.arity = 5

\* Variant of appends_result that keeps the results of validated files only.
appends_result_validated_only(res) == res.action = "RUN_FFMPEG"

\* check_integrity lines 218-229: whether the tuple adds an entry to results.
appends_result(res) == res.action \in {"USE_CACHED", "RUN_FFMPEG"}

\* Variant of result_entry that takes a cached result as passed.
result_entry_cached_ok(res) ==
    [file_path |-> res.file_path,
     ok |-> res.action = "USE_CACHED" \/ res.status = "PASSED",
     error |-> IF res.action = "RUN_FFMPEG" /\ res.status = "FAILED"
               THEN res.message ELSE ""]

\* check_integrity lines 219-229: the entry added to results.
result_entry(res) ==
    [file_path |-> res.file_path,
     ok |-> res.status = "PASSED",
     error |-> IF res.action = "RUN_FFMPEG" /\ res.status = "FAILED"
               THEN res.message ELSE ""]

\* Variant of as_completed_exhausted that goes on after the first result.
first_completed(positions, files) == \E f \in files : positions[f] = "collected"

\* The as_completed loop has handed over the result of every submitted task
\* (and the with block of the executor has joined the pool).
as_completed_exhausted(positions, files) == \A f \in files : positions[f] = "collected"

\* check_integrity lines 271-275: the summary counts.
total_count(rs) == Len(rs)
ok_count(rs) == Cardinality({i \in 1..Len(rs) : rs[i].ok})
error_count(rs) == Len(rs) - ok_count(rs)

\* What the reporting step prints. check_integrity lines 262-280: the
\* per-file detail if verbose, else the summary counts and, with errors, the
\* list of the files with errors. track_files lines 196-201: the summary.
\* collect_metadata lines 353-355: the summary if summary or not verbose.
report(cmd, verbose, summary, errors) ==
    CASE cmd = "check"    -> IF verbose THEN {"detail"}
                             ELSE {"summary"} \cup (IF errors > 0 THEN {"errors"} ELSE {})
      [] cmd = "track"    -> {"summary"}
      [] cmd = "metadata" -> IF summary \/ ~verbose THEN {"summary"} ELSE {}
      [] OTHER            -> {}

\* ------------------------------------------------------------------ batch writer
\* Variant of write_row whose INSERT leaves the mtime column out.
write_row_no_mtime(tx, result, mtime, timestamp, h) ==
    LET file_path == result.file_path
        table == IF result.ok THEN "passed_files" ELSE "failed_files"
        cleared == [t \in Tables |-> delete_row(tx[t], file_path)]
    IN  [cleared EXCEPT ![table] =
            insert_row(@, file_path,
                       [status |-> IF result.ok THEN "PASSED" ELSE "FAILED", mtime |-> 0,
                        last_checked |-> timestamp, content_hash |-> h])]

\* Variant of write_row that deletes the old row from the target table only.
write_row_one_delete(tx, result, mtime, timestamp, h) ==
    LET file_path == result.file_path
        table == IF result.ok THEN "passed_files" ELSE "failed_files"
    IN  [tx EXCEPT ![table] =
            insert_row(delete_row(@, file_path), file_path,
                       [status |-> IF result.ok THEN "PASSED" ELSE "FAILED",
                        mtime |-> mtime, last_checked |-> timestamp,
                        content_hash |-> h])]

\* Variant of write_row without the DELETE FROM failed_files.
write_row_keeps_failed(tx, result, mtime, timestamp, h) ==
    LET file_path == result.file_path
        table == IF result.ok THEN "passed_files" ELSE "failed_files"
        cleared == [tx EXCEPT !["passed_files"] = delete_row(@, file_path)]
    IN  [cleared EXCEPT ![table] =
            insert_row(@, file_path,
                       [status |-> IF result.ok THEN "PASSED" ELSE "FAILED",
                        mtime |-> mtime, last_checked |-> timestamp,
                        content_hash |-> h])]

\* check_integrity lines 241-254: both DELETEs, then the INSERT into the table
\* chosen by ok. h is the history field of the new row.
write_row(tx, result, mtime, timestamp, h) ==
    LET file_path == result.file_path
        status == IF result.ok THEN "PASSED" ELSE "FAILED"
        table == IF result.ok THEN "passed_files" ELSE "failed_files"
        cleared == [t \in Tables |-> delete_row(tx[t], file_path)]
    IN  [cleared EXCEPT ![table] =
            insert_row(@, file_path,
                       [status |-> status, mtime |-> mtime, last_checked |-> timestamp,
                        content_hash |-> h])]

\* Variant of uncommitted_view for a connection in autocommit mode.
autocommit_view(db, tx) == tx

\* sqlite3 default isolation: statements of an open transaction are not seen
\* by other connections before conn.commit().
uncommitted_view(db, tx) == db

\* The history field carried over by a row rewritten from a cached result.
prior_hash(tx, file_path) ==
    IF file_path \in DOMAIN tx["passed_files"] THEN tx["passed_files"][file_path].content_hash
    ELSE IF file_path \in DOMAIN tx["failed_files"]
         THEN tx["failed_files"][file_path].content_hash
    ELSE "None"

\* ------------------------------------------------------------------ initial state
\* A row the check command can have written for a file whose content was c.
RowFor(c, m) ==
    [status |-> IF c = "good" THEN "PASSED" ELSE "FAILED", mtime |-> m,
     last_checked |-> "t0", content_hash |-> c]

StoreOf(rows) ==
    [t \in Tables |->
        LET st == IF t = "passed_files" THEN "PASSED" ELSE "FAILED"
            dom == {f \in Files : rows[f].status = st}
        IN  [f \in dom |-> rows[f]]]

\* The state of the processes before any command has started.
Idle ==
    /\ fsEvents = 0
    /\ backup = [exists |-> FALSE, store |-> EmptyStore,
                 cstore |-> [file_tracker |-> EmptyTable, audio_metadata |-> EmptyTable]]
    /\ dbWriter = "none"
    /\ lockHolders = [d \in Dirs |-> {}]
    /\ pc = [r \in Runs |-> "idle"]
    /\ audio_files = [r \in Runs |-> {}]
    /\ results = [r \in Runs |-> <<>>]
    /\ txn = [r \in Runs |-> EmptyStore]
    /\ widx = [r \in Runs |-> 0]
    /\ abort = [r \in Runs |-> ""]
    /\ tpc = [r \in Runs |-> [f \in Files |-> "none"]]
    /\ tstat = [r \in Runs |-> [f \in Files |-> 0]]
    /\ tdec = [r \in Runs |-> [f \in Files |-> NoDecision]]
    /\ tseen = [r \in Runs |-> [f \in Files |-> {}]]
    /\ tres = [r \in Runs |-> [f \in Files |-> NoTuple]]
    /\ toolCalls = [r \in Runs |-> [f \in Files |-> 0]]
    /\ thash = [r \in Runs |-> [f \in Files |-> "None"]]
    /\ startFs = [r \in Runs |-> fs]
    /\ startStore = [r \in Runs |-> store]
    /\ after = [r \in Runs |-> {}]

\* No call of check_single_file or initialize_database under way.
PureIdle ==
    /\ pureFn = "none"
    /\ toolArg = [file_path |-> "None", outcome |-> "None"]
    /\ toolRet = NoTool
    /\ dbArg = [module |-> "None", db |-> AbsentDb]
    /\ dbOnce = [called |-> FALSE, db |-> AbsentDb]
    /\ dbTwice = [called |-> FALSE, db |-> AbsentDb]

\* The track, metadata and dbcheck commands: none started, their tables empty.
CmdIdle ==
    /\ args = [r \in Runs |-> [cmd |-> "check", verbose |-> FALSE, recheck |-> FALSE]]
    /\ cstore = [file_tracker |-> EmptyTable, audio_metadata |-> EmptyTable]
    /\ wrow = [r \in Runs |-> [f \in Files |-> NoRow]]
    /\ wres = [r \in Runs |-> [f \in Files |-> NoReturn]]
    /\ extracted_data = [r \in Runs |-> <<>>]
    /\ counts = [r \in Runs |-> NoCounts]
    /\ gc = [r \in Runs |-> NoPass]
    /\ commits = [r \in Runs |-> 0]
    /\ printed = [r \in Runs |-> {}]
    /\ writes = {}

\* No call of a decision function and no lock-guarded section under way.
AuxIdle ==
    /\ call = NoCall
    /\ ret = NoDecision
    /\ secPc = [p \in SecProcs |-> "idle"]
    /\ secKind = [p \in SecProcs |-> "none"]
    /\ secExit = [p \in SecProcs |-> "none"]
    /\ PureIdle
    /\ CmdIdle

\* One check run over the music directory. Files exist with mtime 1; per file
\* the store has no row, a row written for the current version (mtime 1), or
\* a row written for an earlier one (mtime 0).
Init ==
    /\ fs \in [Files -> {[exists |-> TRUE, mtime |-> 1, content |-> c] : c \in Contents}]
    /\ \E rows \in [Files -> {NoResult} \cup {RowFor(c, m) : c \in Contents, m \in 0..1}] :
          /\ \A f \in Files : rows[f].mtime = 1 => rows[f].content_hash = fs[f].content
          /\ store = StoreOf(rows)
    /\ cwd = [r \in Runs |-> "d1"]
    /\ target = [r \in Runs |-> "dir"]
    /\ Idle
    /\ AuxIdle

\* Two check runs on one store and an unchanging music directory: the second
\* is started in either directory, on one file while the first is running or
\* on the whole directory after the first has ended.
InitTwo ==
    /\ fs = [f \in Files |-> [exists |-> TRUE, mtime |-> 1,
                              content |-> IF f = "a.flac" THEN "good" ELSE "bad"]]
    /\ \E rows \in [Files -> {NoResult} \cup {RowFor(c, m) : c \in Contents, m \in 0..1}] :
          /\ \A f \in Files : rows[f].mtime = 1 => rows[f].content_hash = fs[f].content
          /\ store = StoreOf(rows)
    /\ cwd \in {c \in [Runs -> Dirs] : c["r1"] = "d1"}
    /\ target \in {t \in [Runs -> {"dir", "a.flac"}] : t["r1"] = "dir"}
    /\ Idle
    /\ AuxIdle

\* ------------------------------------------------------------------ main process
Ended(r) == pc[r] \in {"done", "aborted", "killed", "nofiles"}

\* check_integrity lines 195-204: enumerate the target. The second command is
\* launched while the first runs when its target is one file, and after the
\* first has ended when its target is the whole directory.
Enumerate(r) ==
    /\ pc[r] = "idle"
    /\ r = "r2" => IF target[r] = "dir" THEN Ended("r1") ELSE pc["r1"] # "idle"
    /\ audio_files' = [audio_files EXCEPT ![r] = get_audio_files(fs, target[r])]
    /\ pc' = [pc EXCEPT ![r] =
                IF get_audio_files(fs, target[r]) = {} THEN "nofiles" ELSE "init"]
    /\ startFs' = [startFs EXCEPT ![r] = fs]
    /\ startStore' = [startStore EXCEPT ![r] = store]
    /\ after' = [after EXCEPT ![r] = {q \in Runs : Ended(q)}]
    /\ UNCHANGED <<auxVars, fsVars, dbVars, lockHolders, procVars, results, txn, widx, abort, taskVars>>

\* check_integrity lines 207-212: initialize_database (backup, CREATE TABLE IF
\* NOT EXISTS) and the submission of one process_file task per file.
InitializeDatabase(r) ==
    /\ pc[r] = "init"
    /\ backup' = backup_database(store, cstore)
    /\ tpc' = [tpc EXCEPT ![r] = [f \in Files |->
                  IF f \in audio_files[r] THEN "queued" ELSE "none"]]
    /\ pc' = [pc EXCEPT ![r] = "collect"]
    /\ UNCHANGED <<auxVars, fsVars, store, dbWriter, lockHolders, procVars, audio_files, results, txn,
                   widx, abort, startFs, startStore, after, tstat, tdec, tseen, tres, toolCalls, thash>>

\* ------------------------------------------------------------------ worker task
\* determine_action lines 85-88: the stat before the lock is taken.
Stat(r, f) ==
    /\ tpc[r][f] = "queued"
    /\ LET st == getmtime(fs, f)
           d == determine_action(store, f, FALSE, st)
       IN  IF st.found
           THEN /\ tstat' = [tstat EXCEPT ![r][f] = st.mtime]
                /\ tpc' = [tpc EXCEPT ![r][f] = "wantlock"]
                /\ UNCHANGED <<tdec, tres>>
           ELSE /\ tdec' = [tdec EXCEPT ![r][f] = d]
                /\ tres' = [tres EXCEPT ![r][f] = process_file(d, f, NoTool)]
                /\ tpc' = [tpc EXCEPT ![r][f] = "finished"]
                /\ UNCHANGED tstat
    /\ UNCHANGED <<auxVars, fsVars, dbVars, lockHolders, procVars, runVars, tseen, toolCalls, thash>>

\* determine_action line 91.
TaskLock(r, f) ==
    /\ tpc[r][f] = "wantlock"
    /\ flock_granted(lockHolders[LOCK_FILE(cwd[r])])
    /\ lockHolders' = acquire_lock(lockHolders, cwd[r], Worker(r, f))
    /\ tpc' = [tpc EXCEPT ![r][f] = "locked"]
    /\ UNCHANGED <<auxVars, fsVars, dbVars, procVars, runVars, tstat, tdec, tseen, tres, toolCalls, thash>>

\* Variant of Decide in which determine_action returns RUN_FFMPEG with the
\* lock still held.
Decide_keeps_lock(r, f) ==
    /\ tpc[r][f] = "locked"
    /\ LET d == determine_action(store, f, FALSE, [found |-> TRUE, mtime |-> tstat[r][f]])
       IN  /\ tdec' = [tdec EXCEPT ![r][f] = d]
           /\ tseen' = [tseen EXCEPT ![r][f] =
                           {store[t][f] : t \in {u \in Tables : f \in DOMAIN store[u]}}]
           /\ IF d.action = "RUN_FFMPEG"
              THEN /\ tpc' = [tpc EXCEPT ![r][f] = "decided"]
                   /\ UNCHANGED <<tres, lockHolders>>
              ELSE /\ tpc' = [tpc EXCEPT ![r][f] = "finished"]
                   /\ tres' = [tres EXCEPT ![r][f] = process_file(d, f, NoTool)]
                   /\ lockHolders' = release_lock(lockHolders, cwd[r], Worker(r, f))
    /\ UNCHANGED <<auxVars, fsVars, dbVars, procVars, runVars, tstat, toolCalls, thash>>

\* determine_action lines 92-109 and process_file lines 131-133: the lookup
\* under the lock, the release in the finally clause, and for USE_CACHED the
\* returned tuple.
Decide(r, f) ==
    /\ tpc[r][f] = "locked"
    /\ LET d == determine_action(store, f, FALSE, [found |-> TRUE, mtime |-> tstat[r][f]])
       IN  /\ tdec' = [tdec EXCEPT ![r][f] = d]
           /\ tseen' = [tseen EXCEPT ![r][f] =
                           {store[t][f] : t \in {u \in Tables : f \in DOMAIN store[u]}}]
           /\ IF d.action = "RUN_FFMPEG"
              THEN /\ tpc' = [tpc EXCEPT ![r][f] = "decided"]
                   /\ UNCHANGED tres
              ELSE /\ tpc' = [tpc EXCEPT ![r][f] = "finished"]
                   /\ tres' = [tres EXCEPT ![r][f] = process_file(d, f, NoTool)]
    /\ lockHolders' = release_lock(lockHolders, cwd[r], Worker(r, f))
    /\ UNCHANGED <<auxVars, fsVars, dbVars, procVars, runVars, tstat, toolCalls, thash>>

\* process_file lines 134-137: the ffmpeg run and the returned tuple.
RunTool(r, f) ==
    /\ tpc[r][f] = "decided"
    /\ \E outcome \in ToolOutcomes(fs[f]) :
          tres' = [tres EXCEPT ![r][f] =
                      process_file(tdec[r][f], f, check_single_file(f, outcome))]
    /\ toolCalls' = [toolCalls EXCEPT ![r][f] = @ + 1]
    /\ thash' = [thash EXCEPT ![r][f] = IF fs[f].exists THEN fs[f].content ELSE "None"]
    /\ tpc' = [tpc EXCEPT ![r][f] = "finished"]
    /\ UNCHANGED <<auxVars, fsVars, dbVars, lockHolders, procVars, runVars, tstat, tdec, tseen>>

\* ------------------------------------------------------------------ collection
\* check_integrity lines 214-230: one iteration of the as_completed loop.
Collect(r, f) ==
    /\ pc[r] = "collect"
    /\ tpc[r][f] = "finished"
    /\ tpc' = [tpc EXCEPT ![r][f] = "collected"]
    /\ IF unpack_ok(tres[r][f])
       THEN /\ results' = [results EXCEPT ![r] =
                   IF appends_result(tres[r][f])
                   THEN Append(@, result_entry(tres[r][f])) ELSE @]
            /\ UNCHANGED <<pc, abort>>
       ELSE /\ pc' = [pc EXCEPT ![r] = "aborted"]
            /\ abort' = [abort EXCEPT ![r] = "ValueError"]
            /\ UNCHANGED results
    /\ UNCHANGED <<auxVars, fsVars, dbVars, lockHolders, procVars, audio_files, txn, widx, startFs, startStore, after,
                   tstat, tdec, tseen, tres, toolCalls, thash>>

\* ------------------------------------------------------------------ batch writer
\* Variant of BeginWrite in which backup_database asks for the lock its caller
\* holds: flock on a second open file of the same process blocks for ever.
BeginWrite_rerequests(r) ==
    /\ pc[r] = "collect"
    /\ as_completed_exhausted(tpc[r], audio_files[r])
    /\ flock_granted(lockHolders[LOCK_FILE(cwd[r])])
    /\ lockHolders' = acquire_lock(lockHolders, cwd[r], Main(r))
    /\ pc' = [pc EXCEPT ![r] = "blocked"]
    /\ UNCHANGED <<auxVars, fsVars, store, backup, widx, dbWriter, procVars, audio_files, results, txn,
                   abort, startFs, startStore, after, taskVars>>

\* check_integrity lines 233-238: the lock, the backup, the connection.
BeginWrite(r) ==
    /\ pc[r] = "collect"
    /\ as_completed_exhausted(tpc[r], audio_files[r])
    /\ flock_granted(lockHolders[LOCK_FILE(cwd[r])])
    /\ lockHolders' = acquire_lock(lockHolders, cwd[r], Main(r))
    /\ backup' = backup_database(store, cstore)
    /\ widx' = [widx EXCEPT ![r] = 1]
    /\ pc' = [pc EXCEPT ![r] = "writing"]
    /\ UNCHANGED <<auxVars, fsVars, store, dbWriter, procVars, audio_files, results, txn, abort, startFs,
                   startStore, after, taskVars>>

\* check_integrity lines 240-254: one iteration of the row loop. The first
\* DELETE opens the write transaction.
WriteRow(r) ==
    /\ pc[r] = "writing"
    /\ widx[r] <= Len(results[r])
    /\ dbWriter \in {"none", r}
    /\ LET result == results[r][widx[r]]
           f == result.file_path
           st == getmtime(fs, f)
           base == IF dbWriter = r THEN txn[r] ELSE store
           h == IF tres[r][f].action = "RUN_FFMPEG" THEN thash[r][f]
                ELSE prior_hash(base, f)
       IN  /\ st.found
           /\ txn' = [txn EXCEPT ![r] = write_row(base, result, st.mtime, r, h)]
           /\ store' = uncommitted_view(store, txn'[r])
    /\ dbWriter' = r
    /\ widx' = [widx EXCEPT ![r] = @ + 1]
    /\ UNCHANGED <<auxVars, fsVars, backup, lockHolders, procVars, pc, audio_files, results, abort,
                   startFs, startStore, after, taskVars>>

\* Variant of RaiseInWrite whose connection commits on the way out what the
\* row loop has executed so far.
RaiseInWrite_commits_partial(r, exc) ==
    /\ pc' = [pc EXCEPT ![r] = "aborted"]
    /\ abort' = [abort EXCEPT ![r] = exc]
    /\ store' = IF dbWriter = r THEN txn[r] ELSE store
    /\ txn' = [txn EXCEPT ![r] = EmptyStore]
    /\ dbWriter' = IF dbWriter = r THEN "none" ELSE dbWriter
    /\ lockHolders' = release_lock(lockHolders, cwd[r], Main(r))
    /\ UNCHANGED <<auxVars, fsVars, backup, procVars, audio_files, results, widx, startFs, startStore, after,
                   taskVars>>

\* Leaving the critical section by an exception: rollback of the open
\* transaction and the finally clause of lines 258-259.
RaiseInWrite(r, exc) ==
    /\ pc' = [pc EXCEPT ![r] = "aborted"]
    /\ abort' = [abort EXCEPT ![r] = exc]
    /\ txn' = [txn EXCEPT ![r] = EmptyStore]
    /\ dbWriter' = IF dbWriter = r THEN "none" ELSE dbWriter
    /\ lockHolders' = release_lock(lockHolders, cwd[r], Main(r))
    /\ UNCHANGED <<auxVars, fsVars, store, backup, procVars, audio_files, results, widx, startFs, startStore, after,
                   taskVars>>

\* check_integrity line 243: os.path.getmtime raises for a file deleted since
\* its result was produced.
WriteFail(r) ==
    /\ pc[r] = "writing"
    /\ widx[r] <= Len(results[r])
    /\ ~getmtime(fs, results[r][widx[r]].file_path).found
    /\ RaiseInWrite(r, "FileNotFoundError")

\* sqlite3 busy timeout (5 s) of the first DELETE while another connection
\* holds the write transaction.
WriteBusy(r) ==
    /\ pc[r] = "writing"
    /\ widx[r] <= Len(results[r])
    /\ getmtime(fs, results[r][widx[r]].file_path).found
    /\ dbWriter \notin {"none", r}
    /\ RaiseInWrite(r, "OperationalError")

\* check_integrity lines 256-259: commit, close, release.
Commit(r) ==
    /\ pc[r] = "writing"
    /\ widx[r] > Len(results[r])
    /\ store' = IF dbWriter = r THEN txn[r] ELSE store
    /\ dbWriter' = IF dbWriter = r THEN "none" ELSE dbWriter
    /\ lockHolders' = release_lock(lockHolders, cwd[r], Main(r))
    /\ pc' = [pc EXCEPT ![r] = "report"]
    /\ UNCHANGED <<auxVars, fsVars, backup, procVars, audio_files, results, txn, widx, abort, startFs,
                   startStore, after, taskVars>>

\* check_integrity lines 261-280: the printed report.
Report(r) ==
    /\ pc[r] = "report"
    /\ printed' = [printed EXCEPT ![r] =
                       report("check", args[r].verbose, FALSE, error_count(results[r]))]
    /\ pc' = [pc EXCEPT ![r] = "done"]
    /\ UNCHANGED <<decVars, secVars, pureVars, args, cstore, wrow, wres, extracted_data,
                   counts, gc, commits, writes, fsVars, dbVars, lockHolders, procVars,
                   audio_files, results, txn, widx, abort, startFs, startStore, after,
                   taskVars>>

\* The main process is killed or interrupted before its commit: the operating
\* system drops its flock and sqlite rolls the open transaction back.
Kill(r) ==
    /\ pc[r] \in {"init", "collect", "writing"}
    /\ pc' = [pc EXCEPT ![r] = "killed"]
    /\ txn' = [txn EXCEPT ![r] = EmptyStore]
    /\ dbWriter' = IF dbWriter = r THEN "none" ELSE dbWriter
    /\ lockHolders' = release_lock(lockHolders, cwd[r], Main(r))
    /\ UNCHANGED <<auxVars, fsVars, store, backup, procVars, audio_files, results, widx, abort, startFs,
                   startStore, after, taskVars>>

\* ------------------------------------------------------------------ environment
\* Another program rewrites or touches a file.
Modify(f) ==
    /\ fs[f].exists
    /\ fs[f].mtime < MaxMtime
    /\ fsEvents < MaxFsEvents
    /\ \E c \in Contents :
          fs' = [fs EXCEPT ![f] = [exists |-> TRUE, mtime |-> fs[f].mtime + 1, content |-> c]]
    /\ fsEvents' = fsEvents + 1
    /\ UNCHANGED <<auxVars, dbVars, lockHolders, procVars, runVars, taskVars>>

\* Another program deletes a file.
Delete(f) ==
    /\ fs[f].exists
    /\ fsEvents < MaxFsEvents
    /\ fs' = [fs EXCEPT ![f] = [exists |-> FALSE, mtime |-> 0, content |-> "None"]]
    /\ fsEvents' = fsEvents + 1
    /\ UNCHANGED <<auxVars, dbVars, lockHolders, procVars, runVars, taskVars>>

SingleRun == {"r1"}

Next ==
    \/ \E r \in SingleRun : Enumerate(r)
    \/ \E r \in SingleRun : InitializeDatabase(r)
    \/ \E r \in SingleRun, f \in Files : Stat(r, f)
    \/ \E r \in SingleRun, f \in Files : TaskLock(r, f)
    \/ \E r \in SingleRun, f \in Files : Decide(r, f)
    \/ \E r \in SingleRun, f \in Files : RunTool(r, f)
    \/ \E r \in SingleRun, f \in Files : Collect(r, f)
    \/ \E r \in SingleRun : BeginWrite(r)
    \/ \E r \in SingleRun : WriteRow(r)
    \/ \E r \in SingleRun : WriteFail(r)
    \/ \E r \in SingleRun : Commit(r)
    \/ \E r \in SingleRun : Report(r)
    \/ \E r \in SingleRun : Kill(r)
    \/ \E f \in Files : Modify(f)
    \/ \E f \in Files : Delete(f)

Spec == Init /\ [][Next]_vars

NextTwo ==
    \/ \E r \in Runs : Enumerate(r)
    \/ \E r \in Runs : InitializeDatabase(r)
    \/ \E r \in Runs, f \in Files : Stat(r, f)
    \/ \E r \in Runs, f \in Files : TaskLock(r, f)
    \/ \E r \in Runs, f \in Files : Decide(r, f)
    \/ \E r \in Runs, f \in Files : RunTool(r, f)
    \/ \E r \in Runs, f \in Files : Collect(r, f)
    \/ \E r \in Runs : BeginWrite(r)
    \/ \E r \in Runs : WriteRow(r)
    \/ \E r \in Runs : WriteBusy(r)
    \/ \E r \in Runs : Commit(r)
    \/ \E r \in Runs : Report(r)

SpecTwo == InitTwo /\ [][NextTwo]_vars

\* ------------------------------------------------------------------ decision functions
\* metadata_collector.determine_action: row is the fetched audio_metadata row
\* (its last_checked on the clock of the mtimes), st the result of getmtime.
determine_action_metadata(row, force_recheck, st) ==
    IF ~st.found
    THEN [action |-> "FILE_NOT_FOUND", stored_status |-> "None", current_mtime |-> 0]
    ELSE IF row.present /\ ~force_recheck /\ row.last_checked >= st.mtime
    THEN [action |-> "USE_CACHED", stored_status |-> "None", current_mtime |-> 0]
    ELSE [action |-> "EXTRACT_METADATA", stored_status |-> "None",
          current_mtime |-> st.mtime]

\* Rows of the integrity tables and of audio_metadata a call can meet.
CheckRows ==
    {NoResult} \cup
    {[status |-> s, mtime |-> m, last_checked |-> "t0", content_hash |-> "None"] :
        s \in Statuses, m \in 0..MaxMtime}
MetadataRows ==
    {NoMetadata} \cup {[present |-> TRUE, last_checked |-> t] : t \in 0..MaxMtime}

Calls ==
    {[module |-> "integrity_check", force_recheck |-> fr, found |-> fd,
      mtime |-> IF fd THEN m ELSE 0, row |-> row, metadata |-> NoMetadata] :
        fr \in BOOLEAN, fd \in BOOLEAN, m \in 1..MaxMtime, row \in CheckRows}
    \cup
    {[module |-> "metadata_collector", force_recheck |-> fr, found |-> fd,
      mtime |-> IF fd THEN m ELSE 0, row |-> NoResult, metadata |-> row] :
        fr \in BOOLEAN, fd \in BOOLEAN, m \in 1..MaxMtime, row \in MetadataRows}

\* The store holding exactly the given row for the path.
StoreWith(row, file_path) ==
    [t \in Tables |->
        IF row # NoResult /\ t = (IF row.status = "PASSED" THEN "passed_files"
                                  ELSE "failed_files")
        THEN [f \in {file_path} |-> row]
        ELSE EmptyTable]

InitDecide ==
    /\ fs = [f \in Files |-> [exists |-> TRUE, mtime |-> 1, content |-> "good"]]
    /\ store = EmptyStore
    /\ cwd = [r \in Runs |-> "d1"]
    /\ target = [r \in Runs |-> "dir"]
    /\ Idle
    /\ call \in Calls
    /\ ret = NoDecision
    /\ secPc = [p \in SecProcs |-> "idle"]
    /\ secKind = [p \in SecProcs |-> "none"]
    /\ secExit = [p \in SecProcs |-> "none"]
    /\ PureIdle
    /\ CmdIdle

\* One call of determine_action of either module on the drawn arguments.
CallDetermineAction ==
    /\ ret = NoDecision
    /\ ret' = IF call.module = "integrity_check"
              THEN determine_action(StoreWith(call.row, "a.flac"), "a.flac",
                                    call.force_recheck,
                                    [found |-> call.found, mtime |-> call.mtime])
              ELSE determine_action_metadata(call.metadata, call.force_recheck,
                                             [found |-> call.found, mtime |-> call.mtime])
    /\ UNCHANGED <<call, secVars, pureVars, cmdVars, fsVars, dbVars, lockHolders, procVars, runVars, taskVars>>

NextDecide == CallDetermineAction

SpecDecide == InitDecide /\ [][NextDecide]_vars

\* ------------------------------------------------------------------ lock-guarded sections
\* The sections between acquire_lock and the finally clause, and the ways
\* control leaves each: falling off the end of the try block ("normal"), a
\* return statement inside it ("return"), an exception raised inside it.
Sections ==
    {"determine_action", "batch_write", "cleanup_database", "track_file",
     "list_tracked_files", "export_database"}

SectionExits(kind) ==
    IF kind \in {"determine_action", "track_file"}
    THEN {"return", "exception"}
    ELSE {"normal", "exception"}

\* Variant of finally_releases for sections that call release_lock after the
\* block instead of in a finally clause.
releases_without_finally(kind, exit) == exit # "exception"

\* Every section is the try block of a try/finally whose finally clause
\* calls release_lock.
finally_releases(kind, exit) == TRUE

InitLock ==
    /\ fs = [f \in Files |-> [exists |-> TRUE, mtime |-> 1, content |-> "good"]]
    /\ store = EmptyStore
    /\ cwd = [r \in Runs |-> "d1"]
    /\ target = [r \in Runs |-> "dir"]
    /\ Idle
    /\ AuxIdle

\* A command reaches acquire_lock(LOCK_FILE) of one of the sections.
SecCall(p, kind) ==
    /\ secPc[p] = "idle"
    /\ secPc' = [secPc EXCEPT ![p] = "waiting"]
    /\ secKind' = [secKind EXCEPT ![p] = kind]
    /\ secExit' = [secExit EXCEPT ![p] = "none"]
    /\ UNCHANGED <<decVars, pureVars, cmdVars, fsVars, dbVars, lockHolders, procVars, runVars, taskVars>>

\* flock returns: the process is inside the try block.
SecEnter(p) ==
    /\ secPc[p] = "waiting"
    /\ flock_granted(lockHolders[LOCK_FILE("d1")])
    /\ lockHolders' = acquire_lock(lockHolders, "d1", p)
    /\ secPc' = [secPc EXCEPT ![p] = "inside"]
    /\ UNCHANGED <<decVars, pureVars, cmdVars, secKind, secExit, fsVars, dbVars, procVars, runVars, taskVars>>

\* Control leaves the try block by one of its exits.
SecLeave(p, exit) ==
    /\ secPc[p] = "inside"
    /\ exit \in SectionExits(secKind[p])
    /\ secPc' = [secPc EXCEPT ![p] = "left"]
    /\ secExit' = [secExit EXCEPT ![p] = exit]
    /\ lockHolders' = IF finally_releases(secKind[p], exit)
                      THEN release_lock(lockHolders, "d1", p)
                      ELSE lockHolders
    /\ UNCHANGED <<decVars, pureVars, cmdVars, secKind, fsVars, dbVars, procVars, runVars, taskVars>>

\* The command goes on to its next operation.
SecDone(p) ==
    /\ secPc[p] = "left"
    /\ secPc' = [secPc EXCEPT ![p] = "idle"]
    /\ UNCHANGED <<decVars, pureVars, cmdVars, secKind, secExit, fsVars, dbVars, lockHolders, procVars,
                   runVars, taskVars>>

NextLock ==
    \/ \E p \in SecProcs, kind \in Sections : SecCall(p, kind)
    \/ \E p \in SecProcs : SecEnter(p)
    \/ \E p \in SecProcs, exit \in {"normal", "return", "exception"} : SecLeave(p, exit)
    \/ \E p \in SecProcs : SecDone(p)

SpecLock == InitLock /\ [][NextLock]_vars

\* The same sections under the scheduling the kernel gives: a process blocked
\* in fcntl.flock(LOCK_EX) is granted the lock if the lock keeps becoming
\* free. Nothing makes the holder leave its section, and flock is called
\* without LOCK_NB or a timer, so a blocked process has no other step than
\* being granted.
SpecLockFair == SpecLock /\ \A p \in SecProcs : SF_vars(SecEnter(p))

\* ------------------------------------------------------------------ track, metadata, dbcheck
\* datetime.datetime.now(): the clock the file modification times are read
\* from; it advances with every change made to the files.
now == 1 + fsEvents

\* The table a command keeps its rows in.
TableFor(cmd) == IF cmd = "track" THEN "file_tracker" ELSE "audio_metadata"

\* The process that runs process_file or track_file for a file: a pool
\* worker, or the main process in the sequential loop of metadata --verbose.
Holder(r, f) ==
    IF args[r].cmd = "metadata" /\ args[r].verbose THEN Main(r) ELSE Worker(r, f)

\* cursor.fetchone() of the SELECT of track_file (mtime) and of
\* metadata_collector.determine_action (last_checked).
select_row(tbl, file_path) ==
    IF file_path \in DOMAIN tbl
    THEN [present |-> TRUE, mtime |-> tbl[file_path].mtime,
          last_checked |-> tbl[file_path].last_checked]
    ELSE NoRow

\* file_tracker.track_file lines 67-89 on the fetched row: the action
\* returned and the table after the UPDATE or INSERT and its commit. The
\* INSERT of a path that has a row by now violates the primary key.
track_file(tbl, file_path, row, mtime, current_time) ==
    LET new == [mtime |-> mtime, last_checked |-> current_time, sample_rate |-> "NULL"]
    IN  IF row.present
        THEN IF row.mtime = mtime
             THEN [action |-> "UNCHANGED", table |-> tbl]
             ELSE [action |-> "UPDATED",
                   table |-> IF file_path \in DOMAIN tbl
                             THEN insert_row(tbl, file_path, new) ELSE tbl]
        ELSE IF file_path \in DOMAIN tbl
             THEN [action |-> "IntegrityError", table |-> tbl]
             ELSE [action |-> "ADDED", table |-> insert_row(tbl, file_path, new)]

\* What extract_metadata can give for a file: the tags, or an 'error' entry.
ExtractOutcomes(file) == IF file.exists THEN {"ok", "error"} ELSE {"error"}

\* metadata_collector.process_file lines 185-212 on the decision d.
process_file_metadata(d, outcome, current_time) ==
    IF d.action = "USE_CACHED" THEN [action |-> "USE_CACHED", data |-> 0]
    ELSE IF d.action = "EXTRACT_METADATA" /\ outcome = "ok"
    THEN [action |-> "EXTRACTED", data |-> current_time]
    ELSE [action |-> "ERROR", data |-> 0]

\* Variant of count_result whose last branch tests for the action ERROR, so
\* that a FILE_NOT_FOUND result adds to no counter.
count_result_error_only(cnt, action) ==
    CASE action = "ADDED"      -> [cnt EXCEPT !.added = @ + 1]
      [] action = "UPDATED"    -> [cnt EXCEPT !.updated = @ + 1]
      [] action = "UNCHANGED"  -> [cnt EXCEPT !.unchanged = @ + 1]
      [] action = "USE_CACHED" -> [cnt EXCEPT !.cached = @ + 1]
      [] action = "EXTRACTED"  -> [cnt EXCEPT !.extracted = @ + 1]
      [] action = "ERROR"      -> [cnt EXCEPT !.errors = @ + 1]
      [] OTHER                 -> cnt

\* The counter a collected result adds to (track_files lines 182-189,
\* collect_metadata lines 322-328).
count_result(cnt, action) ==
    CASE action = "ADDED"      -> [cnt EXCEPT !.added = @ + 1]
      [] action = "UPDATED"    -> [cnt EXCEPT !.updated = @ + 1]
      [] action = "UNCHANGED"  -> [cnt EXCEPT !.unchanged = @ + 1]
      [] action = "USE_CACHED" -> [cnt EXCEPT !.cached = @ + 1]
      [] action = "EXTRACTED"  -> [cnt EXCEPT !.extracted = @ + 1]
      [] OTHER                 -> [cnt EXCEPT !.errors = @ + 1]

\* Variant of cleanup_deletes that deletes every fetched row.
cleanup_deletes_all(fsys, file_path) == TRUE

\* cleanup_database: a fetched row is deleted when os.path.exists is false.
cleanup_deletes(fsys, file_path) == ~fsys[file_path].exists

\* database_check.check_database lines 313-320: rows of missing files are
\* deleted, a sample_rate outside (0, 1000000] becomes NULL.
repair(fsys, tbl) ==
    [f \in {g \in DOMAIN tbl : fsys[g].exists} |->
        IF tbl[f].sample_rate = "invalid" THEN [tbl[f] EXCEPT !.sample_rate = "NULL"]
        ELSE tbl[f]]

\* A statement that changes rows, with whether its process holds the lock.
Statement(op, p, r) == [op |-> op, locked |-> p \in lockHolders[LOCK_FILE(cwd[r])]]

\* cursor.executemany / cursor.execute of INSERT OR REPLACE INTO audio_metadata
\* for the collected rows.
executemany(tbl, rows) ==
    LET paths == {rows[i].file_path : i \in 1..Len(rows)}
        last(f) == CHOOSE i \in 1..Len(rows) :
                      /\ rows[i].file_path = f
                      /\ \A j \in 1..Len(rows) : rows[j].file_path = f => j <= i
    IN  [f \in (DOMAIN tbl) \cup paths |->
            IF f \in paths
            THEN [mtime |-> 0, last_checked |-> rows[last(f)].last_checked,
                  sample_rate |-> "valid"]
            ELSE tbl[f]]

\* The variables of the check command and of the calls of single functions,
\* which track, metadata and dbcheck leave alone.
restVars == <<store, backup, results, txn, widx, startFs, startStore, after, tseen,
              tres, thash, decVars, secVars, pureVars, procVars>>

\* track_files lines 156-178, collect_metadata lines 267-318: initialize_database,
\* the enumeration of the target and the submission of the tasks (in metadata
\* --verbose the start of the sequential loop).
CmdStart(r) ==
    /\ pc[r] = "idle"
    /\ args[r].cmd \in {"track", "metadata"}
    /\ LET files == get_audio_files(fs, target[r])
       IN  /\ audio_files' = [audio_files EXCEPT ![r] = files]
           /\ tpc' = [tpc EXCEPT ![r] = [f \in Files |->
                         IF f \in files THEN "queued" ELSE "none"]]
           /\ pc' = [pc EXCEPT ![r] =
                        IF files = {} THEN "nofiles"
                        ELSE IF args[r].cmd = "metadata" /\ args[r].verbose THEN "verbose"
                        ELSE "pool"]
    /\ UNCHANGED <<restVars, fsVars, dbWriter, lockHolders, abort, tstat, tdec, toolCalls,
                   cmdVars>>

\* track_file lines 56-58, metadata_collector.determine_action lines 160-163:
\* the stat before the lock is taken. In the sequential loop one file is
\* processed at a time.
WStat(r, f) ==
    /\ pc[r] \in {"pool", "verbose"}
    /\ tpc[r][f] = "queued"
    /\ pc[r] = "verbose" =>
          \A g \in Files \ {f} : tpc[r][g] \in {"none", "queued", "collected"}
    /\ LET st == getmtime(fs, f)
       IN  IF st.found
           THEN /\ tstat' = [tstat EXCEPT ![r][f] = st.mtime]
                /\ tpc' = [tpc EXCEPT ![r][f] = "wantlock"]
                /\ UNCHANGED wres
           ELSE /\ wres' = [wres EXCEPT ![r][f] =
                       IF args[r].cmd = "track"
                       THEN [action |-> "FILE_NOT_FOUND", data |-> 0]
                       ELSE process_file_metadata(
                                [NoDecision EXCEPT !.action = "FILE_NOT_FOUND"], "error", now)]
                /\ tpc' = [tpc EXCEPT ![r][f] = "finished"]
                /\ UNCHANGED tstat
    /\ UNCHANGED <<restVars, fsVars, dbWriter, lockHolders, pc, audio_files, abort, tdec,
                   toolCalls, args, printed, cstore, wrow, extracted_data, counts, gc, commits,
                   writes>>

\* track_file line 60, metadata_collector.determine_action line 165.
WLock(r, f) ==
    /\ args[r].cmd \in {"track", "metadata"}
    /\ tpc[r][f] = "wantlock"
    /\ flock_granted(lockHolders[LOCK_FILE(cwd[r])])
    /\ lockHolders' = acquire_lock(lockHolders, cwd[r], Holder(r, f))
    /\ tpc' = [tpc EXCEPT ![r][f] = "locked"]
    /\ UNCHANGED <<restVars, fsVars, dbWriter, pc, audio_files, abort, tstat, tdec,
                   toolCalls, cmdVars>>

\* track_file lines 62-65: the SELECT under the lock, which track_file keeps.
\* metadata_collector.determine_action lines 167-179: the SELECT, the
\* decision, the release in the finally clause, and for USE_CACHED the tuple
\* process_file returns.
WDecide(r, f) ==
    /\ args[r].cmd \in {"track", "metadata"}
    /\ tpc[r][f] = "locked"
    /\ LET row == select_row(cstore[TableFor(args[r].cmd)], f)
           d == determine_action_metadata(row, args[r].recheck,
                                          [found |-> TRUE, mtime |-> tstat[r][f]])
       IN  /\ wrow' = [wrow EXCEPT ![r][f] = row]
           /\ IF args[r].cmd = "track"
              THEN /\ tpc' = [tpc EXCEPT ![r][f] = "selected"]
                   /\ UNCHANGED <<lockHolders, tdec, wres>>
              ELSE /\ tdec' = [tdec EXCEPT ![r][f] = d]
                   /\ lockHolders' = release_lock(lockHolders, cwd[r], Holder(r, f))
                   /\ IF d.action = "USE_CACHED"
                      THEN /\ wres' = [wres EXCEPT ![r][f] =
                                          process_file_metadata(d, "ok", now)]
                           /\ tpc' = [tpc EXCEPT ![r][f] = "finished"]
                      ELSE /\ tpc' = [tpc EXCEPT ![r][f] = "decided"]
                           /\ UNCHANGED wres
    /\ UNCHANGED <<restVars, fsVars, dbWriter, pc, audio_files, abort, tstat, toolCalls,
                   args, printed, cstore, extracted_data, counts, gc, commits, writes>>

\* track_file lines 67-91: the UPDATE or INSERT with the mtime read at line
\* 56, its commit, the returned tuple (or the exception of the INSERT) and
\* the release in the finally clause.
TrackWrite(r, f) ==
    /\ args[r].cmd = "track"
    /\ tpc[r][f] = "selected"
    /\ dbWriter = "none"
    /\ LET res == track_file(cstore.file_tracker, f, wrow[r][f], tstat[r][f], now)
           changed == res.action \in {"ADDED", "UPDATED"}
       IN  /\ cstore' = [cstore EXCEPT !.file_tracker = res.table]
           /\ wres' = [wres EXCEPT ![r][f] = [action |-> res.action, data |-> 0]]
           /\ commits' = [commits EXCEPT ![r] = IF changed THEN @ + 1 ELSE @]
           /\ writes' = IF changed
                        THEN writes \cup {Statement("track_file", Worker(r, f), r)}
                        ELSE writes
    /\ lockHolders' = release_lock(lockHolders, cwd[r], Worker(r, f))
    /\ tpc' = [tpc EXCEPT ![r][f] = "finished"]
    /\ UNCHANGED <<restVars, fsVars, dbWriter, pc, audio_files, abort, tstat, tdec,
                   toolCalls, args, printed, wrow, extracted_data, counts, gc>>

\* metadata_collector.process_file lines 187-211: extract_metadata and the
\* returned tuple, stamped with the time of the extraction.
Extract(r, f) ==
    /\ args[r].cmd = "metadata"
    /\ tpc[r][f] = "decided"
    /\ \E outcome \in ExtractOutcomes(fs[f]) :
          wres' = [wres EXCEPT ![r][f] = process_file_metadata(tdec[r][f], outcome, now)]
    /\ toolCalls' = [toolCalls EXCEPT ![r][f] = @ + 1]
    /\ tpc' = [tpc EXCEPT ![r][f] = "finished"]
    /\ UNCHANGED <<restVars, fsVars, dbWriter, lockHolders, pc, audio_files, abort, tstat,
                   tdec, args, printed, cstore, wrow, extracted_data, counts, gc, commits, writes>>

\* track_files lines 180-192, collect_metadata lines 289-299 and 320-329: one
\* result is counted; an extracted row is kept for the batch update or, in
\* the sequential loop, written before the next file. An exception of the
\* task is raised again by future.result().
CmdCollect(r, f) ==
    /\ pc[r] \in {"pool", "verbose"}
    /\ args[r].cmd \in {"track", "metadata"}
    /\ tpc[r][f] = "finished"
    /\ tpc' = [tpc EXCEPT ![r][f] = "collected"]
    /\ IF wres[r][f].action = "IntegrityError"
       THEN /\ pc' = [pc EXCEPT ![r] = "aborted"]
            /\ abort' = [abort EXCEPT ![r] = "IntegrityError"]
            /\ UNCHANGED <<counts, extracted_data>>
       ELSE /\ counts' = [counts EXCEPT ![r] = count_result(@, wres[r][f].action)]
            /\ extracted_data' = [extracted_data EXCEPT ![r] =
                  IF wres[r][f].action = "EXTRACTED"
                  THEN Append(@, [file_path |-> f, last_checked |-> wres[r][f].data])
                  ELSE @]
            /\ pc' = [pc EXCEPT ![r] =
                  IF wres[r][f].action = "EXTRACTED" /\ args[r].verbose
                  THEN "persist_wait" ELSE @]
            /\ UNCHANGED abort
    /\ UNCHANGED <<restVars, fsVars, dbWriter, lockHolders, audio_files, tstat, tdec,
                   toolCalls, args, printed, cstore, wrow, wres, gc, commits, writes>>

\* collect_metadata lines 300 and 332-333: acquire_lock before the rows are
\* written: per extracted file in the sequential loop, once after the pool
\* when extracted_data is not empty.
PersistLock(r) ==
    /\ \/ pc[r] = "persist_wait"
       \/ /\ pc[r] = "pool"
          /\ args[r].cmd = "metadata"
          /\ as_completed_exhausted(tpc[r], audio_files[r])
          /\ extracted_data[r] # <<>>
    /\ flock_granted(lockHolders[LOCK_FILE(cwd[r])])
    /\ lockHolders' = acquire_lock(lockHolders, cwd[r], Main(r))
    /\ pc' = [pc EXCEPT ![r] = "persist"]
    /\ UNCHANGED <<restVars, fsVars, dbWriter, audio_files, abort, tpc, tstat, tdec,
                   toolCalls, cmdVars>>

\* collect_metadata lines 301-310 and 334-343: INSERT OR REPLACE of the rows,
\* the commit and the release. No copy of the database file is made.
Persist(r) ==
    /\ pc[r] = "persist"
    /\ dbWriter = "none"
    /\ cstore' = [cstore EXCEPT !.audio_metadata = executemany(@, extracted_data[r])]
    /\ commits' = [commits EXCEPT ![r] = @ + 1]
    /\ writes' = writes \cup {Statement("collect_metadata", Main(r), r)}
    /\ lockHolders' = release_lock(lockHolders, cwd[r], Main(r))
    /\ extracted_data' = [extracted_data EXCEPT ![r] = IF args[r].verbose THEN <<>> ELSE @]
    /\ pc' = [pc EXCEPT ![r] = IF args[r].verbose THEN "verbose" ELSE "gc_wait"]
    /\ UNCHANGED <<restVars, fsVars, dbWriter, audio_files, abort, tpc, tstat, tdec,
                   toolCalls, args, printed, wrow, wres, counts, gc>>

\* cleanup_database (track_files line 194, collect_metadata line 346) once
\* every result is handled: the lock and the SELECT of all paths.
GcLock(r) ==
    /\ args[r].cmd \in {"track", "metadata"}
    /\ \/ pc[r] = "gc_wait"
       \/ /\ as_completed_exhausted(tpc[r], audio_files[r])
          /\ \/ pc[r] = "verbose"
             \/ pc[r] = "pool" /\ (args[r].cmd = "track" \/ extracted_data[r] = <<>>)
    /\ flock_granted(lockHolders[LOCK_FILE(cwd[r])])
    /\ lockHolders' = acquire_lock(lockHolders, cwd[r], Main(r))
    /\ gc' = [gc EXCEPT ![r] =
                 [todo |-> DOMAIN cstore[TableFor(args[r].cmd)],
                  deleted |-> {},
                  seen |-> [f \in {} |-> FALSE],
                  start |-> cstore[TableFor(args[r].cmd)]]]
    /\ pc' = [pc EXCEPT ![r] = "gc"]
    /\ UNCHANGED <<restVars, fsVars, dbWriter, audio_files, abort, tpc, tstat, tdec,
                   toolCalls, args, printed, cstore, wrow, wres, extracted_data, counts, commits,
                   writes>>

\* cleanup_database: one iteration of the loop over the fetched paths. The
\* first DELETE opens the write transaction.
GcRow(r, f) ==
    /\ pc[r] = "gc"
    /\ f \in gc[r].todo
    /\ LET del == cleanup_deletes(fs, f)
       IN  /\ del => dbWriter \in {"none", r}
           /\ dbWriter' = IF del THEN r ELSE dbWriter
           /\ gc' = [gc EXCEPT ![r].todo = @ \ {f},
                               ![r].deleted = IF del THEN @ \cup {f} ELSE @,
                               ![r].seen = [g \in (DOMAIN @) \cup {f} |->
                                               IF g = f THEN fs[f].exists ELSE @[g]]]
    /\ UNCHANGED <<restVars, fsVars, lockHolders, pc, audio_files, abort, tpc, tstat,
                   tdec, toolCalls, args, printed, cstore, wrow, wres, extracted_data, counts,
                   commits, writes>>

\* cleanup_database: the commit and the release in the finally clause.
GcCommit(r) ==
    /\ pc[r] = "gc"
    /\ gc[r].todo = {}
    /\ LET deleted == gc[r].deleted
           t == TableFor(args[r].cmd)
       IN  /\ cstore' = [cstore EXCEPT ![t] = [f \in (DOMAIN @) \ deleted |-> @[f]]]
           /\ writes' = IF deleted # {}
                        THEN writes \cup {Statement("cleanup_database", Main(r), r)}
                        ELSE writes
    /\ dbWriter' = IF dbWriter = r THEN "none" ELSE dbWriter
    /\ lockHolders' = release_lock(lockHolders, cwd[r], Main(r))
    /\ pc' = [pc EXCEPT ![r] = "report"]
    /\ UNCHANGED <<restVars, fsVars, audio_files, abort, tpc, tstat, tdec, toolCalls,
                   args, printed, wrow, wres, extracted_data, counts, gc, commits>>

\* track_files lines 196-201, collect_metadata lines 353-355: the summary.
CmdReport(r) ==
    /\ pc[r] = "report"
    /\ args[r].cmd \in {"track", "metadata"}
    /\ printed' = [printed EXCEPT ![r] =
                       report(args[r].cmd, args[r].verbose, FALSE, counts[r].errors)]
    /\ pc' = [pc EXCEPT ![r] = "done"]
    /\ UNCHANGED <<restVars, fsVars, dbWriter, lockHolders, audio_files, abort, tpc,
                   tstat, tdec, toolCalls, args, cstore, wrow, wres, extracted_data,
                   counts, gc, commits, writes>>

\* check_database lines 255-303 of dbcheck --repair: the scan for missing
\* files and invalid values.
DbCheck(r) ==
    /\ pc[r] = "idle"
    /\ args[r].cmd = "dbcheck"
    /\ LET tbl == cstore.audio_metadata
           issues == \E f \in DOMAIN tbl :
                        ~fs[f].exists \/ tbl[f].sample_rate = "invalid"
       IN  pc' = [pc EXCEPT ![r] = IF issues THEN "repair" ELSE "done"]
    /\ UNCHANGED <<restVars, fsVars, dbWriter, lockHolders, audio_files, abort, tpc,
                   tstat, tdec, toolCalls, cmdVars>>

\* check_database lines 306-326: the repair, on a connection of its own and
\* with no call of acquire_lock.
Repair(r) ==
    /\ pc[r] = "repair"
    /\ dbWriter = "none"
    /\ cstore' = [cstore EXCEPT !.audio_metadata = repair(fs, @)]
    /\ writes' = writes \cup {Statement("check_database", Main(r), r)}
    /\ pc' = [pc EXCEPT ![r] = "done"]
    /\ UNCHANGED <<restVars, fsVars, dbWriter, lockHolders, audio_files, abort, tpc,
                   tstat, tdec, toolCalls, args, printed, wrow, wres, extracted_data, counts, gc,
                   commits>>

\* Rows a command can find for a file: written before the file's last change
\* (0) or after it (1); for dbcheck, with a valid or an invalid sample_rate.
CmdRows(cmd) ==
    IF cmd = "dbcheck"
    THEN {[mtime |-> 0, last_checked |-> 1, sample_rate |-> s] : s \in {"valid", "invalid"}}
    ELSE {[mtime |-> IF cmd = "track" THEN m ELSE 0, last_checked |-> m,
           sample_rate |-> IF cmd = "track" THEN "NULL" ELSE "valid"] : m \in 0..1}

\* The command lines: check with and without --verbose, track, metadata with
\* and without --verbose and --recheck (and without --summary), dbcheck
\* --repair.
CmdLines ==
    {[cmd |-> c, verbose |-> FALSE, recheck |-> FALSE] : c \in {"check", "track", "dbcheck"}}
    \cup {[cmd |-> "check", verbose |-> TRUE, recheck |-> FALSE]}
    \cup {[cmd |-> "metadata", verbose |-> v, recheck |-> k] : v \in BOOLEAN, k \in BOOLEAN}

\* The commands started with the given command lines in the given working
\* directories on the given targets, the tables of the first one's command
\* holding any rows.
CmdInit(lines, dirs, targets) ==
    /\ call = NoCall
    /\ ret = NoDecision
    /\ secPc = [p \in SecProcs |-> "idle"]
    /\ secKind = [p \in SecProcs |-> "none"]
    /\ secExit = [p \in SecProcs |-> "none"]
    /\ PureIdle
    /\ args \in lines
    /\ cwd \in dirs
    /\ target \in targets
    /\ IF args["r1"].cmd = "check"
       THEN /\ \E rows \in [Files -> {NoResult} \cup
                                      {RowFor(c, m) : c \in Contents, m \in 0..1}] :
                  /\ \A f \in Files : rows[f].mtime = 1 => rows[f].content_hash = fs[f].content
                  /\ store = StoreOf(rows)
            /\ cstore = [file_tracker |-> EmptyTable, audio_metadata |-> EmptyTable]
       ELSE /\ store = EmptyStore
            /\ \E S \in SUBSET Files : \E rows \in [S -> CmdRows(args["r1"].cmd)] :
                  cstore = [t \in {"file_tracker", "audio_metadata"} |->
                               IF t = TableFor(args["r1"].cmd) THEN rows ELSE EmptyTable]
    /\ Idle
    /\ wrow = [r \in Runs |-> [f \in Files |-> NoRow]]
    /\ wres = [r \in Runs |-> [f \in Files |-> NoReturn]]
    /\ extracted_data = [r \in Runs |-> <<>>]
    /\ counts = [r \in Runs |-> NoCounts]
    /\ gc = [r \in Runs |-> NoPass]
    /\ commits = [r \in Runs |-> 0]
    /\ printed = [r \in Runs |-> {}]
    /\ writes = {}

\* One command on the music directory, in which b.flac may be missing; the
\* check command with --verbose is given the one file a.flac.
InitCmd ==
    /\ fs \in {[f \in Files |-> IF f = "a.flac" \/ present
                               THEN [exists |-> TRUE, mtime |-> 1, content |-> "good"]
                               ELSE [exists |-> FALSE, mtime |-> 0, content |-> "None"]] :
                 present \in BOOLEAN}
    /\ LET other == [cmd |-> "check", verbose |-> FALSE, recheck |-> FALSE]
           wordy == {line \in CmdLines : line.cmd = "check" /\ line.verbose}
       IN  \/ CmdInit({[r \in Runs |-> IF r = "r1" THEN line ELSE other] :
                          line \in CmdLines \ wordy},
                      {[r \in Runs |-> "d1"]}, {[r \in Runs |-> "dir"]})
           \/ CmdInit({[r \in Runs |-> IF r = "r1" THEN line ELSE other] : line \in wordy},
                      {[r \in Runs |-> "d1"]}, {[r \in Runs |-> "a.flac"]})

\* The steps of the track, metadata and dbcheck commands of the given runs.
CmdNext(runs) ==
    \/ \E r \in runs : CmdStart(r)
    \/ \E r \in runs, f \in Files : WStat(r, f)
    \/ \E r \in runs, f \in Files : WLock(r, f)
    \/ \E r \in runs, f \in Files : WDecide(r, f)
    \/ \E r \in runs, f \in Files : TrackWrite(r, f)
    \/ \E r \in runs, f \in Files : CmdCollect(r, f)
    \/ \E r \in runs : GcLock(r)
    \/ \E r \in runs, f \in Files : GcRow(r, f)
    \/ \E r \in runs : GcCommit(r)
    \/ \E r \in runs : CmdReport(r)

\* The steps of the check commands among the given runs.
CheckNext(runs) ==
    LET checks == {r \in runs : args[r].cmd = "check"}
    IN  \/ \E r \in checks : Enumerate(r)
        \/ \E r \in checks : InitializeDatabase(r)
        \/ \E r \in checks, f \in Files : Stat(r, f)
        \/ \E r \in checks, f \in Files : TaskLock(r, f)
        \/ \E r \in checks, f \in Files : Decide(r, f)
        \/ \E r \in checks, f \in Files : RunTool(r, f)
        \/ \E r \in checks, f \in Files : Collect(r, f)
        \/ \E r \in checks : BeginWrite(r)
        \/ \E r \in checks : WriteRow(r)
        \/ \E r \in checks : WriteFail(r)
        \/ \E r \in checks : Commit(r)
        \/ \E r \in checks : Report(r)
        \/ \E r \in checks : Kill(r)

NextCmd ==
    \/ CheckNext(SingleRun)
    \/ CmdNext(SingleRun)
    \/ \E r \in SingleRun, f \in Files : Extract(r, f)
    \/ \E r \in SingleRun : PersistLock(r)
    \/ \E r \in SingleRun : Persist(r)
    \/ \E r \in SingleRun : DbCheck(r)
    \/ \E r \in SingleRun : Repair(r)
    \/ \E f \in Files : Modify(f)
    \/ \E f \in Files : Delete(f)

SpecCmd == InitCmd /\ [][NextCmd]_vars

\* Two track commands on one database file and an unchanging music
\* directory, the second on a.flac and started in either directory.
InitCmdTwo ==
    /\ fs = [f \in Files |-> [exists |-> TRUE, mtime |-> 1, content |-> "good"]]
    /\ CmdInit({[r \in Runs |-> [cmd |-> "track", verbose |-> FALSE, recheck |-> FALSE]]},
               {c \in [Runs -> Dirs] : c["r1"] = "d1"},
               {[r \in Runs |-> IF r = "r1" THEN "dir" ELSE "a.flac"]})

NextCmdTwo == CmdNext(Runs)

SpecCmdTwo == InitCmdTwo /\ [][NextCmdTwo]_vars

\* Two batches of any two of check, track and metadata (each with its pool of
\* workers) at the same time on
\* one database file without rows and an unchanging music directory: the
\* first on the directory, the second on a.flac and started in either
\* directory.
InitMix ==
    /\ fs = [f \in Files |-> [exists |-> TRUE, mtime |-> 1,
                              content |-> IF f = "a.flac" THEN "good" ELSE "bad"]]
    /\ CmdInit(LET pooled == {line \in CmdLines : /\ line.cmd # "dbcheck"
                                                   /\ ~line.recheck /\ ~line.verbose}
               IN  {[r \in Runs |-> IF r = "r1" THEN one ELSE two] :
                       one \in pooled, two \in pooled},
               {c \in [Runs -> Dirs] : c["r1"] = "d1"},
               {[r \in Runs |-> IF r = "r1" THEN "dir" ELSE "a.flac"]})
    /\ store = EmptyStore
    /\ cstore = [file_tracker |-> EmptyTable, audio_metadata |-> EmptyTable]

\* The steps of the two batches; no process is killed and every tool returns.
NextMix ==
    LET checks == {r \in Runs : args[r].cmd = "check"}
    IN  \/ \E r \in checks : Enumerate(r)
        \/ \E r \in checks : InitializeDatabase(r)
        \/ \E r \in checks, f \in Files : Stat(r, f)
        \/ \E r \in checks, f \in Files : TaskLock(r, f)
        \/ \E r \in checks, f \in Files : Decide(r, f)
        \/ \E r \in checks, f \in Files : RunTool(r, f)
        \/ \E r \in checks, f \in Files : Collect(r, f)
        \/ \E r \in checks : BeginWrite(r)
        \/ \E r \in checks : WriteRow(r)
        \/ \E r \in checks : WriteBusy(r)
        \/ \E r \in checks : Commit(r)
        \/ \E r \in checks : Report(r)
        \/ CmdNext(Runs)
        \/ \E r \in Runs, f \in Files : Extract(r, f)
        \/ \E r \in Runs : PersistLock(r)
        \/ \E r \in Runs : Persist(r)

\* Fair scheduling: a step that stays possible is taken.
SpecMix == InitMix /\ [][NextMix]_vars /\ WF_vars(NextMix)

\* Two metadata commands on the music directory, one after the other, with no
\* change to the files: the first with any flags, the second without
\* --recheck.
InitMetaTwo ==
    /\ fs = [f \in Files |-> [exists |-> TRUE, mtime |-> 1, content |-> "good"]]
    /\ CmdInit({[r \in Runs |-> IF r = "r1" THEN one ELSE two] :
                   one \in {line \in CmdLines : line.cmd = "metadata"},
                   two \in {line \in CmdLines : line.cmd = "metadata" /\ ~line.recheck}},
               {[r \in Runs |-> "d1"]}, {[r \in Runs |-> "dir"]})

NextMetaTwo ==
    \/ \E r \in Runs : (r = "r2" => pc["r1"] = "done") /\ CmdStart(r)
    \/ \E r \in Runs, f \in Files : WStat(r, f)
    \/ \E r \in Runs, f \in Files : WLock(r, f)
    \/ \E r \in Runs, f \in Files : WDecide(r, f)
    \/ \E r \in Runs, f \in Files : Extract(r, f)
    \/ \E r \in Runs, f \in Files : CmdCollect(r, f)
    \/ \E r \in Runs : PersistLock(r)
    \/ \E r \in Runs : Persist(r)
    \/ \E r \in Runs : GcLock(r)
    \/ \E r \in Runs, f \in Files : GcRow(r, f)
    \/ \E r \in Runs : GcCommit(r)
    \/ \E r \in Runs : CmdReport(r)

SpecMetaTwo == InitMetaTwo /\ [][NextMetaTwo]_vars

\* ------------------------------------------------------------------ pure functions
\* What the ffmpeg subprocess of check_single_file can do.
Outcomes == {"clean", "stderr", "timeout", "exception"}

\* The tables each module's initialize_database creates.
ModuleTables(module) ==
    CASE module = "integrity_check"    -> {"passed_files", "failed_files"}
      [] module = "file_tracker"       -> {"file_tracker"}
      [] module = "metadata_collector" -> {"audio_metadata"}
      [] OTHER                         -> {}

\* Variant of create_table_if_not_exists that drops an existing table first.
create_table_drop_first(tbl) == [exists |-> TRUE, rows |-> {}]

\* CREATE TABLE IF NOT EXISTS: a table that exists is left as it is.
create_table_if_not_exists(tbl) ==
    IF tbl.exists THEN tbl ELSE [exists |-> TRUE, rows |-> {}]

\* initialize_database of a module, as a function of the database file.
initialize_database(module, db) ==
    [t \in AllTables |->
        IF t \in ModuleTables(module) THEN create_table_if_not_exists(db[t]) ELSE db[t]]

\* Tables a database file can hold: absent, empty, or with rows for a.flac
\* or for both files.
SchemaTables ==
    {[exists |-> FALSE, rows |-> {}]} \cup
    {[exists |-> TRUE, rows |-> {[file_path |-> f, mtime |-> 1] : f \in fset}] :
        fset \in {{}, {"a.flac"}, Files}}

InitPure ==
    /\ fs = [f \in Files |-> [exists |-> TRUE, mtime |-> 1, content |-> "good"]]
    /\ store = EmptyStore
    /\ cwd = [r \in Runs |-> "d1"]
    /\ target = [r \in Runs |-> "dir"]
    /\ Idle
    /\ call = NoCall
    /\ ret = NoDecision
    /\ secPc = [p \in SecProcs |-> "idle"]
    /\ secKind = [p \in SecProcs |-> "none"]
    /\ secExit = [p \in SecProcs |-> "none"]
    /\ CmdIdle
    /\ pureFn \in {"check_single_file", "initialize_database"}
    /\ toolRet = NoTool
    /\ dbOnce = [called |-> FALSE, db |-> AbsentDb]
    /\ dbTwice = [called |-> FALSE, db |-> AbsentDb]
    /\ IF pureFn = "check_single_file"
       THEN /\ toolArg \in [file_path : Files, outcome : Outcomes]
            /\ dbArg = [module |-> "None", db |-> AbsentDb]
       ELSE /\ toolArg = [file_path |-> "None", outcome |-> "None"]
            /\ dbArg \in [module : {"integrity_check", "file_tracker", "metadata_collector"},
                          db : [AllTables -> SchemaTables]]

\* One call of check_single_file on the drawn path and subprocess outcome.
CallCheckSingleFile ==
    /\ pureFn = "check_single_file"
    /\ toolRet = NoTool
    /\ toolRet' = check_single_file(toolArg.file_path, toolArg.outcome)
    /\ UNCHANGED <<pureFn, toolArg, dbArg, dbOnce, dbTwice, decVars, secVars, cmdVars, fsVars,
                   dbVars, lockHolders, procVars, runVars, taskVars>>

\* A call of initialize_database: the first on the drawn database file, the
\* second on the file the first call left.
CallInitializeDatabase ==
    /\ pureFn = "initialize_database"
    /\ ~dbTwice.called
    /\ IF ~dbOnce.called
       THEN /\ dbOnce' = [called |-> TRUE,
                          db |-> initialize_database(dbArg.module, dbArg.db)]
            /\ UNCHANGED dbTwice
       ELSE /\ dbTwice' = [called |-> TRUE,
                           db |-> initialize_database(dbArg.module, dbOnce.db)]
            /\ UNCHANGED dbOnce
    /\ UNCHANGED <<pureFn, toolArg, toolRet, dbArg, decVars, secVars, cmdVars, fsVars,
                   dbVars, lockHolders, procVars, runVars, taskVars>>

NextPure ==
    \/ CallCheckSingleFile
    \/ CallInitializeDatabase

SpecPure == InitPure /\ [][NextPure]_vars

\* ------------------------------------------------------------------ dbcheck functions
\* Tables of the integrity store as a database file of any age can hold them
\* for one path: with or without the columns mtime and file_hash, empty or
\* with one row. A column the table lacks is "absent" in the row, an SQL NULL
\* (None in Python) is "NULL"; a stored mtime is written as its digits, a
\* stored hash is named by the content hashed.
DbcheckTables(file_path) ==
    {[columns |-> {"file_path", "status", "last_checked"}
                      \cup (IF m = "absent" THEN {} ELSE {"mtime"})
                      \cup (IF h = "absent" THEN {} ELSE {"file_hash"}),
      rows |-> IF empty THEN {}
               ELSE {[file_path |-> file_path, mtime |-> m, file_hash |-> h]}] :
        m \in {"absent", "NULL", "1"}, h \in {"absent", "NULL"} \cup Contents,
        empty \in BOOLEAN}

\* database_check.calculate_file_hash: the MD5 of the content, None for a
\* file that is missing or cannot be opened.
calculate_file_hash(fsys, unreadable, file_path) ==
    IF fsys[file_path].exists /\ file_path \notin unreadable
    THEN fsys[file_path].content ELSE "NULL"

\* database_check.update_database_schema: a table without the mtime column
\* gets it by ALTER TABLE ADD COLUMN, and every row the mtime of its file
\* (NULL when the file cannot be stat'ed).
update_database_schema(db, fsys) ==
    [t \in Tables |->
        IF "mtime" \in db[t].columns THEN db[t]
        ELSE [columns |-> db[t].columns \cup {"mtime"},
              rows |-> {[row EXCEPT !.mtime =
                            IF getmtime(fsys, row.file_path).found
                            THEN ToString(getmtime(fsys, row.file_path).mtime) ELSE "NULL"] :
                        row \in db[t].rows}]]

\* database_check.list_database_entries lines 99-124: per table the SELECT
\* of file_path, file_hash, last_checked and mtime (NULL AS mtime when the
\* column is missing; file_hash is named unconditionally), and the entry of
\* each row, classified when verify is set.
list_database_entries(db, verify, fsys, unreadable) ==
    LET entry(t, row) ==
            LET current_hash == calculate_file_hash(fsys, unreadable, row.file_path)
                table_status == IF t = "passed_files" THEN "PASSED" ELSE "FAILED"
            IN  [entry_status |->
                     IF ~verify THEN table_status
                     ELSE IF ~fsys[row.file_path].exists THEN "MISSING"
                     ELSE IF current_hash # row.file_hash THEN "CHANGED"
                     ELSE IF current_hash = "NULL" THEN "ERROR"
                     ELSE table_status,
                 file_path |-> row.file_path,
                 stored_hash |-> row.file_hash,
                 mtime |-> IF "mtime" \in db[t].columns THEN row.mtime ELSE "NULL"]
    IN  IF \E t \in Tables : "file_hash" \notin db[t].columns
        THEN [raised |-> "OperationalError", all_entries |-> {}]
        ELSE [raised |-> "",
              all_entries |-> UNION {{entry(t, row) : row \in db[t].rows} : t \in Tables}]

\* A database file of the integrity tables with at most a row for a.flac in
\* passed_files and for b.flac in failed_files, files that exist or not and
\* can be opened or not, and one of the two functions to call.
InitDb ==
    /\ fs \in [Files -> {[exists |-> TRUE, mtime |-> 1, content |-> "good"],
                         [exists |-> FALSE, mtime |-> 0, content |-> "None"]}]
    /\ store = EmptyStore
    /\ cwd = [r \in Runs |-> "d1"]
    /\ target = [r \in Runs |-> "dir"]
    /\ Idle
    /\ call = NoCall
    /\ ret = NoDecision
    /\ secPc = [p \in SecProcs |-> "idle"]
    /\ secKind = [p \in SecProcs |-> "none"]
    /\ secExit = [p \in SecProcs |-> "none"]
    /\ CmdIdle
    /\ pureFn \in {"update_database_schema", "list_database_entries"}
    /\ toolArg = [file_path |-> "None", outcome |-> "None"]
    /\ toolRet = NoTool
    /\ dbOnce = [called |-> FALSE, db |-> AbsentDb]
    /\ dbTwice = [called |-> FALSE, db |-> AbsentDb]
    /\ \E p \in DbcheckTables("a.flac"), q \in DbcheckTables("b.flac"),
          v \in BOOLEAN, u \in SUBSET Files :
          /\ pureFn = "update_database_schema" => ~v /\ u = {}
          /\ dbArg = [module |-> "database_check",
                      db |-> [t \in Tables |-> IF t = "passed_files" THEN p ELSE q],
                      verify |-> v, unreadable |-> u]

\* A call of update_database_schema: the first on the drawn database file,
\* the second on the file the first call left.
CallUpdateDatabaseSchema ==
    /\ pureFn = "update_database_schema"
    /\ ~dbTwice.called
    /\ IF ~dbOnce.called
       THEN /\ dbOnce' = [called |-> TRUE, db |-> update_database_schema(dbArg.db, fs)]
            /\ UNCHANGED dbTwice
       ELSE /\ dbTwice' = [called |-> TRUE, db |-> update_database_schema(dbOnce.db, fs)]
            /\ UNCHANGED dbOnce
    /\ UNCHANGED <<pureFn, toolArg, toolRet, dbArg, decVars, secVars, cmdVars, fsVars,
                   dbVars, lockHolders, procVars, runVars, taskVars>>

\* One call of list_database_entries on the drawn database file, which it
\* only reads: what it listed, or the exception that ended it.
CallListDatabaseEntries ==
    /\ pureFn = "list_database_entries"
    /\ ~dbOnce.called
    /\ dbOnce' = [called |-> TRUE, db |-> dbArg.db,
                  out |-> list_database_entries(dbArg.db, dbArg.verify, fs,
                                                dbArg.unreadable)]
    /\ UNCHANGED <<pureFn, toolArg, toolRet, dbArg, dbTwice, decVars, secVars, cmdVars,
                   fsVars, dbVars, lockHolders, procVars, runVars, taskVars>>

NextDb ==
    \/ CallUpdateDatabaseSchema
    \/ CallListDatabaseEntries

SpecDb == InitDb /\ [][NextDb]_vars

\* ------------------------------------------------------------------ properties
Decided(r, f) == tpc[r][f] \in {"decided", "finished", "collected"}
Returned(r, f) == tpc[r][f] \in {"finished", "collected"}
InResults(r, f) == \E i \in 1..Len(results[r]) : results[r][i].file_path = f
TableOf(status) == IF status = "PASSED" THEN "passed_files" ELSE "failed_files"

\* C1: a file that exists and has a stored row whose mtime equals the mtime
\* read by the decision gets USE_CACHED with the stored status, and
\* process_file returns the cached tuple without running check_single_file.
C1_UseCachedOnEqualMtime ==
    \A r \in Runs, f \in Files :
        (Decided(r, f) /\ \E row \in tseen[r][f] : row.mtime = tstat[r][f])
        => /\ tdec[r][f].action = "USE_CACHED"
           /\ \E row \in tseen[r][f] :
                 row.mtime = tstat[r][f] /\ tdec[r][f].stored_status = row.status
           /\ Returned(r, f)
           /\ tres[r][f].action = "USE_CACHED"
           /\ tres[r][f].status = tdec[r][f].stored_status
           /\ toolCalls[r][f] = 0

C1_Witness ==
    \E r \in Runs, f \in Files :
        /\ tpc[r][f] = "collected"
        /\ \E row \in tseen[r][f] : row.mtime = tstat[r][f] /\ row.status = "FAILED"
        /\ tres[r][f].action = "USE_CACHED"
        /\ toolCalls[r][f] = 0

\* C2: until its commit (initialization, dispatch, collection, the row loop,
\* and after a kill or an exception at any of these points) a run leaves the
\* committed rows exactly as they were when it started.
C2_NoRowsBeforeCommit ==
    \A r \in Runs :
        pc[r] \in {"init", "collect", "writing", "killed", "aborted"}
        => store = startStore[r]

C2_Witness ==
    \E r \in Runs :
        /\ pc[r] = "killed"
        /\ widx[r] > 1
        /\ store = startStore[r]
        /\ \E i \in 1..Len(results[r]) :
              results[r][i].file_path \notin
                  DOMAIN store[IF results[r][i].ok THEN "passed_files" ELSE "failed_files"]

\* C3: at most one process holds the store lock at any time, and the write
\* critical sections of two runs on the same store never overlap.
C3_OneLockHolder ==
    /\ Cardinality(UNION {lockHolders[d] : d \in Dirs}) <= 1
    /\ ~(pc["r1"] = "writing" /\ pc["r2"] = "writing")

\* C4: a process that has left a lock-guarded section, by its end, by a
\* return or by an exception, does not hold the store lock.
C4_LockReleasedOnEveryExit ==
    \A p \in SecProcs :
        secPc[p] # "inside" => p \notin lockHolders[LOCK_FILE("d1")]

C4_Witness ==
    \E p \in SecProcs, q \in SecProcs :
        /\ secPc[p] = "left"
        /\ secExit[p] = "exception"
        /\ secPc[q] = "inside"
        /\ q \in lockHolders[LOCK_FILE("d1")]

\* C5: a file absent at its decision gets FILE_NOT_FOUND, is never validated,
\* and its result is skipped by the collection: no entry in results and no
\* exception, so that the summary and the commit leave it out.
C5_NotFoundIsSkipped ==
    \A r \in Runs, f \in Files :
        (tdec[r][f].action = "FILE_NOT_FOUND" /\ tpc[r][f] = "collected")
        => /\ toolCalls[r][f] = 0
           /\ ~InResults(r, f)
           /\ abort[r] # "ValueError"

\* C6: no per-file outcome (pass, fail, timeout, tool exception, a file
\* deleted at any moment after the enumeration) ends the batch before its
\* commit and report.
C6_NoFileErrorAbortsTheBatch ==
    \A r \in Runs :
        pc[r] = "aborted" => abort[r] \notin {"ValueError", "FileNotFoundError"}

\* C7: of two runs on the same target, the second started after the first has
\* ended and no file changed since the first started, both report the same
\* Total, OK and Errors, and the second runs check_single_file for no file.
C7_SecondRunIsCached ==
    \A p \in Runs, q \in Runs :
        (/\ p # q
         /\ pc[p] = "done" /\ pc[q] = "done"
         /\ p \in after[q]
         /\ target[p] = target[q]
         /\ startFs[p] = fs)
        => /\ total_count(results[p]) = total_count(results[q])
           /\ ok_count(results[p]) = ok_count(results[q])
           /\ error_count(results[p]) = error_count(results[q])
           /\ \A f \in Files : toolCalls[q][f] = 0

C7_Witness ==
    \E p \in Runs, q \in Runs :
        /\ p # q
        /\ pc[p] = "done" /\ pc[q] = "done"
        /\ p \in after[q]
        /\ target[p] = target[q]
        /\ \E f \in Files : toolCalls[p][f] = 1
        /\ error_count(results[q]) = 1
        /\ total_count(results[q]) = 2

\* C8: for a file with a stored row of another mtime than its current mtime
\* m the decision is RUN_FFMPEG, and once the run has committed the store
\* holds one row for the path: mtime m, the status the validation returned,
\* in the table of that status and in no other.
C8_FreshRowAfterCommit ==
    \A r \in Runs, f \in Files :
        (/\ Decided(r, f)
         /\ \E row \in tseen[r][f] : row.mtime # tstat[r][f]
         /\ fs[f].exists /\ fs[f].mtime = tstat[r][f])
        => /\ tdec[r][f].action = "RUN_FFMPEG"
           /\ pc[r] \in {"report", "done"}
              => LET s == tres[r][f].status IN
                 /\ f \in DOMAIN store[TableOf(s)]
                 /\ store[TableOf(s)][f].mtime = tstat[r][f]
                 /\ store[TableOf(s)][f].status = s
                 /\ \A t \in Tables \ {TableOf(s)} : f \notin DOMAIN store[t]

C8_Witness ==
    \E r \in Runs, f \in Files :
        /\ pc[r] = "done"
        /\ \E row \in tseen[r][f] : row.mtime # tstat[r][f] /\ row.status = "PASSED"
        /\ fs[f].exists /\ fs[f].mtime = tstat[r][f]
        /\ tres[r][f].status = "FAILED"
        /\ f \in DOMAIN store["failed_files"]
        /\ store["failed_files"][f].mtime = tstat[r][f]

\* C9: with force_recheck set and the file present, determine_action returns
\* RUN_FFMPEG (check) or EXTRACT_METADATA (metadata) whatever row is stored.
C9_ForceBypassesCache ==
    (ret # NoDecision /\ call.force_recheck /\ call.found)
    => ret.action = IF call.module = "integrity_check" THEN "RUN_FFMPEG"
                    ELSE "EXTRACT_METADATA"

C9_Witness ==
    /\ ret # NoDecision
    /\ call.force_recheck /\ call.found
    /\ call.module = "integrity_check"
    /\ call.row # NoResult /\ call.row.mtime = call.mtime
    /\ ret.action = "RUN_FFMPEG"

\* C10 as stated: with a stored row of another mtime and unchanged content
\* (the content hash equals the one the row was written for) the decision is
\* UpdateMtimeOnly and the validation tool is not run.
C10_UpdateMtimeOnly ==
    \A r \in Runs, f \in Files :
        (/\ Decided(r, f)
         /\ fsEvents = 0
         /\ \E row \in tseen[r][f] :
               row.mtime # tstat[r][f] /\ row.content_hash = fs[f].content)
        => /\ tdec[r][f].action = "UPDATE_MTIME_ONLY"
           /\ toolCalls[r][f] = 0

\* C10 as amended: with a stored row of another mtime the decision is taken
\* on the mtime alone: RUN_FFMPEG, also when the content is unchanged, and
\* process_file runs check_single_file once and returns its status.
C10_MtimeAloneDecides ==
    \A r \in Runs, f \in Files :
        (Decided(r, f) /\ \E row \in tseen[r][f] : row.mtime # tstat[r][f])
        => /\ tdec[r][f].action = "RUN_FFMPEG"
           /\ Returned(r, f) =>
                 /\ toolCalls[r][f] = 1
                 /\ tres[r][f].action = "RUN_FFMPEG"
                 /\ tres[r][f].update_mtime = tstat[r][f]

C10_Witness ==
    \E r \in Runs, f \in Files :
        /\ Returned(r, f)
        /\ fsEvents = 0
        /\ \E row \in tseen[r][f] :
              /\ row.mtime # tstat[r][f]
              /\ row.content_hash = fs[f].content
              /\ row.status = tres[r][f].status
        /\ toolCalls[r][f] = 1

\* C14: check_single_file returns for every outcome of the ffmpeg run (clean
\* exit, diagnostics on stderr, timeout, any exception) a triple whose status
\* is PASSED or FAILED and whose third component is the input path; a timeout
\* gives FAILED.
C14_ToolFailureIsAResult ==
    toolRet # NoTool
    => /\ toolRet.status \in Statuses
       /\ toolRet.file_path = toolArg.file_path
       /\ toolArg.outcome \in {"timeout", "exception", "stderr"} => toolRet.status = "FAILED"

C14_Witness ==
    /\ toolRet # NoTool
    /\ toolArg.outcome = "timeout"
    /\ toolRet.status = "FAILED"
    /\ toolRet.message = "FFmpeg timed out"

\* C19: initialize_database leaves every table that exists, and its rows, as
\* they were, and a second call leaves the database file as the first left it.
C19_InitializeIsIdempotent ==
    /\ dbOnce.called =>
          \A t \in AllTables : dbArg.db[t].exists => dbOnce.db[t] = dbArg.db[t]
    /\ dbTwice.called => dbTwice.db = dbOnce.db

C19_Witness ==
    /\ dbTwice.called
    /\ dbArg.module = "integrity_check"
    /\ dbArg.db["passed_files"].rows # {}
    /\ ~dbArg.db["failed_files"].exists
    /\ dbTwice.db["failed_files"].exists
    /\ dbTwice.db["passed_files"] = dbArg.db["passed_files"]

\* C20: a process waiting for the store lock does not wait forever: it is
\* granted the lock or gives up with an error, also when the holder never
\* releases.
C20_WaiterNeverWaitsForever ==
    \A p \in SecProcs : (secPc[p] = "waiting") ~> (secPc[p] # "waiting")


\* C11: every batch run of a store-writing command commits its result rows
\* once per batch and not once per file, and no worker commits rows itself.
C11_OneCommitPerBatch ==
    /\ \A r \in Runs : commits[r] <= 1
    /\ \A w \in writes : w.op # "track_file"

\* C12: in check and in non-verbose metadata the section that writes the rows
\* of the batch is entered, and its commit made, only when every submitted
\* task has finished and its result has been collected.
C12_CommitAfterAllWork ==
    \A r \in Runs :
        LET inBatchWrite ==
                \/ args[r].cmd = "check" /\ pc[r] \in {"writing", "report", "done"}
                \/ /\ args[r].cmd = "metadata" /\ ~args[r].verbose
                   /\ (pc[r] = "persist" \/ commits[r] > 0)
        IN  inBatchWrite => \A f \in audio_files[r] : tpc[r][f] = "collected"

C12_Witness ==
    \E r \in Runs :
        /\ args[r].cmd = "metadata" /\ ~args[r].verbose
        /\ pc[r] = "persist"
        /\ Cardinality(audio_files[r]) = 2
        /\ Len(extracted_data[r]) = 2
        /\ \A f \in audio_files[r] : toolCalls[r][f] = 1

\* C13: every statement that changes rows of the store (batch write, per-file
\* upsert, cleanup, dbcheck repair) is executed by a process that holds the
\* store lock.
C13_MutationsHoldTheLock ==
    /\ \A w \in writes : w.locked
    /\ \A r \in Runs : args[r].cmd = "check" /\ pc[r] = "writing"
                           => Main(r) \in lockHolders[LOCK_FILE(cwd[r])]


\* C15: no INSERT of a run fails on the primary key of its table, also when
\* runs execute concurrently on the same path (one row per path in a table is
\* what the primary key enforces on every table of the store).
C15_NoPrimaryKeyViolation ==
    \A r \in Runs :
        /\ abort[r] # "IntegrityError"
        /\ \A f \in Files : wres[r][f].action # "IntegrityError"


\* C16: a row written by the check batch writer or by track_file carries the
\* mtime the file has on disk at the step that writes the row, also when the
\* file was modified after the process read its mtime.
C16_RowMtimeIsDiskMtime ==
    [][\A r \in Runs :
          /\ \A f \in Files :
                (tpc[r][f] = "selected" /\ wres'[r][f].action \in {"ADDED", "UPDATED"})
                    => cstore'.file_tracker[f].mtime = fs[f].mtime
          /\ (pc[r] = "writing" /\ widx'[r] = widx[r] + 1)
                => LET res == results[r][widx[r]]
                       t == IF res.ok THEN "passed_files" ELSE "failed_files"
                   IN  txn'[r][t][res.file_path].mtime = fs[res.file_path].mtime
      ]_vars


\* C17: after a cleanup_database pass every row whose file was not on disk
\* when the pass examined it is gone, and every row whose file was on disk is
\* in its table with the column values it had when the pass began.
C17_CleanupRemovesExactlyTheAbsent ==
    \A r \in Runs :
        (args[r].cmd \in {"track", "metadata"} /\ pc[r] \in {"report", "done"})
            => LET tbl == cstore[TableFor(args[r].cmd)]
               IN  \A f \in DOMAIN gc[r].start :
                      /\ f \in DOMAIN gc[r].seen
                      /\ ~gc[r].seen[f] => f \notin DOMAIN tbl
                      /\ gc[r].seen[f] => f \in DOMAIN tbl /\ tbl[f] = gc[r].start[f]

C17_Witness ==
    \E r \in Runs :
        /\ args[r].cmd \in {"track", "metadata"}
        /\ pc[r] = "done"
        /\ \E f, g \in DOMAIN gc[r].start :
              /\ ~gc[r].seen[f] /\ f \notin DOMAIN cstore[TableFor(args[r].cmd)]
              /\ gc[r].seen[g] /\ g \in DOMAIN cstore[TableFor(args[r].cmd)]


\* C18: at the commit of a batch write (check, metadata) the .db.bak copy
\* exists and holds the tables of the store as they were before the writes
\* of this batch.
C18_BackupBeforeBatch ==
    [][\A r \in Runs :
          /\ (args[r].cmd = "check" /\ pc[r] = "writing" /\ pc'[r] = "report")
                => backup.exists /\ backup.store = store /\ backup.cstore = cstore
          /\ (args[r].cmd = "metadata" /\ pc[r] = "persist" /\ pc'[r] # "persist")
                => backup.exists /\ backup.store = store /\ backup.cstore = cstore
      ]_vars


\* C21: whatever the order in which the tasks of a check batch complete, no
\* file is validated twice, the results list has one entry per file, each
\* entry carries the status computed for its own path, and the committed
\* rows are the ones these results give: they depend on no order.
C21_CompletionOrderIsImmaterial ==
    \A r \in Runs :
        args[r].cmd = "check" =>
            /\ \A f \in Files : toolCalls[r][f] <= 1
            /\ pc[r] \in {"writing", "report", "done"} =>
                  /\ Len(results[r]) = Cardinality(audio_files[r])
                  /\ \A f \in audio_files[r] : \E i \in 1..Len(results[r]) :
                        /\ results[r][i].file_path = f
                        /\ results[r][i].ok = (tres[r][f].status = "PASSED")
                        /\ \A j \in 1..Len(results[r]) :
                              results[r][j].file_path = f => j = i
            /\ pc[r] \in {"report", "done"} =>
                  /\ \A f \in audio_files[r] :
                        LET t == TableOf(tres[r][f].status)
                        IN  /\ f \in DOMAIN store[t]
                            /\ store[t][f].status = tres[r][f].status
                            /\ fsEvents = 0 => store[t][f].mtime = tstat[r][f]
                            /\ \A u \in Tables \ {t} : f \notin DOMAIN store[u]
                  /\ \A f \in Files \ audio_files[r], t \in Tables :
                        /\ (f \in DOMAIN store[t]) = (f \in DOMAIN startStore[r][t])
                        /\ f \in DOMAIN store[t] => store[t][f] = startStore[r][t][f]

C21_Witness ==
    \E r \in Runs :
        /\ args[r].cmd = "check"
        /\ pc[r] = "done"
        /\ Len(results[r]) = 2
        /\ results[r][1].file_path = "b.flac" /\ ~results[r][1].ok
        /\ results[r][2].file_path = "a.flac" /\ results[r][2].ok
        /\ tres[r]["a.flac"].action = "USE_CACHED"
        /\ toolCalls[r]["b.flac"] = 1
        /\ "a.flac" \in DOMAIN store["passed_files"]
        /\ "b.flac" \in DOMAIN store["failed_files"]


\* C22: in every mode of every batch command an external tool (ffmpeg,
\* ffprobe, tag extraction) is run by a pool worker and never by the main
\* process of the command.
C22_ToolsRunInWorkers ==
    \A r \in Runs, f \in Files :
        toolCalls[r][f] > 0 => Holder(r, f) # Main(r)


\* C23: a table that lacks a column an operation expects is handled without
\* failing and without losing data: update_database_schema adds mtime, keeps
\* each row and its other values, and changes nothing when run again;
\* list_database_entries lists every row, with NULL for the missing column.
C23_MissingColumnIsHandled ==
    /\ (pureFn = "update_database_schema" /\ dbOnce.called) =>
          \A t \in Tables :
              /\ dbOnce.db[t].columns = dbArg.db[t].columns \cup {"mtime"}
              /\ {[row EXCEPT !.mtime = "any"] : row \in dbOnce.db[t].rows}
                     = {[row EXCEPT !.mtime = "any"] : row \in dbArg.db[t].rows}
              /\ "mtime" \in dbArg.db[t].columns => dbOnce.db[t] = dbArg.db[t]
    /\ (pureFn = "update_database_schema" /\ dbTwice.called) => dbTwice.db = dbOnce.db
    /\ (pureFn = "list_database_entries" /\ dbOnce.called) =>
          /\ dbOnce.out.raised = ""
          /\ \A t \in Tables : \A row \in dbArg.db[t].rows :
                \E e \in dbOnce.out.all_entries : e.file_path = row.file_path


\* C24: a batch run that reaches its reporting step prints the summary
\* counts whether or not --verbose is set.
C24_SummaryAlwaysPrinted ==
    \A r \in Runs :
        (pc[r] = "done" /\ args[r].cmd \in {"check", "track", "metadata"})
            => "summary" \in printed[r]

\* C25: after the commit of a check batch, the row of every file the run
\* validated has the status of the content that had the row's mtime: if the
\* row's mtime is the mtime of the file on disk, the status was computed from
\* the content on disk, and if it is the mtime of the file as enumerated, from
\* the content as enumerated (an mtime names one version of a file).
C25_RowStatusIsOfRowMtime ==
    \A r \in Runs, f \in Files :
        (pc[r] \in {"report", "done"} /\ args[r].cmd = "check"
            /\ tres[r][f].action = "RUN_FFMPEG")
        => \A t \in Tables :
              (f \in DOMAIN store[t] /\ store[t][f].last_checked = r)
              => /\ (fs[f].exists /\ store[t][f].mtime = fs[f].mtime)
                        => store[t][f].content_hash = fs[f].content
                 /\ (startFs[r][f].exists /\ store[t][f].mtime = startFs[r][f].mtime)
                        => store[t][f].content_hash = startFs[r][f].content

\* C26: a check run whose row loop raised (the mtime of a deleted file, or
\* the busy timeout of the store) leaves the committed rows as they were when
\* it started, holds neither the lock nor the write transaction, and has
\* ended with the exception: it prints no report.
C26_FailedBatchWritesNothing ==
    \A r \in Runs :
        (pc[r] = "aborted" /\ abort[r] \in {"FileNotFoundError", "OperationalError"})
        => /\ store = startStore[r]
           /\ \A t \in Tables : \A f \in DOMAIN store[t] : store[t][f].last_checked # r
           /\ \A d \in Dirs : Main(r) \notin lockHolders[d]
           /\ dbWriter # r
           /\ printed[r] = {}

\* The second result's file was deleted after the first row had been written.
C26_Witness ==
    \E r \in Runs :
        /\ pc[r] = "aborted"
        /\ abort[r] = "FileNotFoundError"
        /\ widx[r] = 2
        /\ Len(results[r]) = 2
        /\ \E t \in Tables : results[r][1].file_path \in DOMAIN startStore[r][t]
        /\ store = startStore[r]

\* C27: whatever check runs have run or are running, one after the other or
\* at the same time, no path has a row in both passed_files and failed_files,
\* every row of passed_files has status PASSED and every row of failed_files
\* has status FAILED.
C27_TablesPartitionThePaths ==
    /\ DOMAIN store["passed_files"] \cap DOMAIN store["failed_files"] = {}
    /\ \A f \in DOMAIN store["passed_files"] : store["passed_files"][f].status = "PASSED"
    /\ \A f \in DOMAIN store["failed_files"] : store["failed_files"][f].status = "FAILED"

\* Two runs at the same time have both committed, and a file that started in
\* failed_files has been moved to passed_files.
C27_Witness ==
    /\ \A r \in Runs : pc[r] = "done"
    /\ after["r2"] = {}
    /\ \E f \in Files :
          /\ f \in DOMAIN startStore["r1"]["failed_files"]
          /\ f \in DOMAIN store["passed_files"]
          /\ f \notin DOMAIN store["failed_files"]
          /\ \A r \in Runs : toolCalls[r][f] = 1

\* C28: the process that runs an external tool for a file (the ffmpeg
\* validation of check, the tag extraction and codec probe of metadata) holds
\* no lock when the tool starts, while a tool is due, or when it has returned;
\* the main process of check, track and non-verbose metadata runs no tool.
C28_NoLockAcrossTool ==
    [][\A r \in Runs, f \in Files :
          /\ toolCalls'[r][f] # toolCalls[r][f]
                => \A d \in Dirs : /\ Holder(r, f) \notin lockHolders[d]
                                   /\ Holder(r, f) \notin lockHolders'[d]
          /\ (tpc[r][f] = "decided" /\ args[r].cmd \in {"check", "metadata"})
                => \A d \in Dirs : Holder(r, f) \notin lockHolders[d]]_vars

\* A tool has run for one file while the task of the other file was inside
\* its decision section.
C28_Witness ==
    \E r \in Runs, f \in Files, g \in Files :
        /\ f # g
        /\ toolCalls[r][f] = 1
        /\ tpc[r][f] = "decided" \/ tpc[r][f] = "finished"
        /\ tpc[r][g] = "locked"
        /\ Holder(r, g) \in lockHolders[LOCK_FILE(cwd[r])]

\* C29: two batches of check, track and metadata running at the same time,
\* under fair scheduling and with tools that return, both come to an end (the
\* main process has ended and its pool has no task under way, which is when
\* the with block of the executor lets the process go); a process that is
\* about to ask for the lock does not hold a lock; and when both have come
\* to an end no lock is held.
C29_BatchesTerminate ==
    LET terminated(r) ==
            /\ Ended(r)
            /\ \A f \in Files : tpc[r][f] \notin {"wantlock", "locked", "selected", "decided"}
    IN  /\ <>(\A r \in Runs : terminated(r))
        /\ [](\A r \in Runs, f \in Files :
                 tpc[r][f] = "wantlock" => \A d \in Dirs : Holder(r, f) \notin lockHolders[d])
        /\ [](\A r \in Runs :
                 (\/ pc[r] \in {"persist_wait", "gc_wait"}
                  \/ /\ pc[r] \in {"collect", "pool", "verbose"}
                     /\ as_completed_exhausted(tpc[r], audio_files[r]))
                 => \A d \in Dirs : Main(r) \notin lockHolders[d])
        /\ []((\A r \in Runs : terminated(r)) => \A d \in Dirs : lockHolders[d] = {})

\* A track batch and a check started while it was running, in the same
\* working directory, have both written their rows and ended.
C29_Witness ==
    /\ args["r1"].cmd = "track" /\ args["r2"].cmd = "check"
    /\ cwd["r2"] = cwd["r1"]
    /\ after["r2"] = {}
    /\ \A r \in Runs : pc[r] = "done"
    /\ commits["r1"] > 0
    /\ "a.flac" \in DOMAIN store["passed_files"]
    /\ \A d \in Dirs : lockHolders[d] = {}

\* C30: the runs at work on the one database file use one lock file,
\* whatever directory each was started in, so that the locks held at any time
\* are held on that one file and their holders exclude each other.
C30_LockIsOfTheStore ==
    /\ \A r \in Runs, q \in Runs :
          (pc[r] # "idle" /\ pc[q] # "idle") => LOCK_FILE(cwd[r]) = LOCK_FILE(cwd[q])
    /\ \A d \in Dirs, e \in Dirs :
          (lockHolders[d] # {} /\ lockHolders[e] # {}) => d = e

\* C31: in a metadata run the decision for a file found on disk is
\* USE_CACHED exactly when the fetched row is present, --recheck is off and
\* the row's last_checked is not earlier than the mtime read, and
\* EXTRACT_METADATA otherwise; and, the files unchanged, a second run without
\* --recheck decides EXTRACT_METADATA for exactly the files whose extraction
\* gave an error in the first run and USE_CACHED for the others.
C31_MetadataCacheRule ==
    \A r \in Runs, f \in Files :
        (args[r].cmd = "metadata" /\ tdec[r][f] # NoDecision)
        => LET cached == /\ wrow[r][f].present
                         /\ ~args[r].recheck
                         /\ wrow[r][f].last_checked >= tstat[r][f]
           IN  /\ tdec[r][f].action = IF cached THEN "USE_CACHED" ELSE "EXTRACT_METADATA"
               /\ (r = "r2" /\ args["r1"].cmd = "metadata")
                     => (tdec[r][f].action = "EXTRACT_METADATA"
                            <=> wres["r1"][f].action = "ERROR")

\* C32: a call of track_file has one of four outcomes, fixed by the stat and
\* by the row its SELECT fetched: FILE_NOT_FOUND when the stat fails (no
\* statement is executed); ADDED when no row was fetched (a row with the mtime
\* read is inserted); UPDATED when the fetched row has another mtime (the
\* row's mtime becomes the mtime read); UNCHANGED when it has the same mtime
\* (the table is left alone). Of the calls of two runs on a path that neither
\* found tracked at most one returns ADDED, and once both have returned one
\* of them has.
C32_TrackFileOutcomes ==
    /\ [][\A r \in Runs, f \in Files :
             (args[r].cmd = "track" /\ tpc'[r][f] = "finished") =>
                /\ tpc[r][f] = "queued" =>
                      /\ wres'[r][f].action = "FILE_NOT_FOUND"
                      /\ ~fs[f].exists
                      /\ cstore' = cstore
                /\ tpc[r][f] = "selected" =>
                      LET row == wrow[r][f]
                          tbl == cstore'.file_tracker
                      IN  /\ ~row.present =>
                                /\ wres'[r][f].action = "ADDED"
                                /\ f \in DOMAIN tbl /\ tbl[f].mtime = tstat[r][f]
                          /\ (row.present /\ row.mtime # tstat[r][f]) =>
                                /\ wres'[r][f].action = "UPDATED"
                                /\ f \in DOMAIN tbl /\ tbl[f].mtime = tstat[r][f]
                          /\ (row.present /\ row.mtime = tstat[r][f]) =>
                                /\ wres'[r][f].action = "UNCHANGED"
                                /\ cstore' = cstore]_vars
    /\ [](\A f \in Files :
             (\A r \in Runs : /\ args[r].cmd = "track"
                              /\ tpc[r][f] \in {"finished", "collected"}
                              /\ tstat[r][f] > 0 /\ ~wrow[r][f].present)
             => Cardinality({r \in Runs : wres[r][f].action = "ADDED"}) = 1)

\* C33: in a batch that has run to its end every enumerated file is counted
\* in one bucket of the summary: in track Added, Updated, Unchanged and
\* Errors, in metadata Extracted, Cached and Errors, in check OK and Errors;
\* each bucket holds the files with that result and the buckets add up to the
\* number of files.
C33_CountsAddUp ==
    \A r \in Runs :
        pc[r] = "done" =>
            LET n == Cardinality(audio_files[r])
                with(acts) == Cardinality({f \in audio_files[r] : wres[r][f].action \in acts})
                c == counts[r]
            IN  /\ args[r].cmd = "track" =>
                      /\ c.added = with({"ADDED"})
                      /\ c.updated = with({"UPDATED"})
                      /\ c.unchanged = with({"UNCHANGED"})
                      /\ c.errors = with({"FILE_NOT_FOUND"})
                      /\ c.added + c.updated + c.unchanged + c.errors = n
                /\ args[r].cmd = "metadata" =>
                      /\ c.extracted = with({"EXTRACTED"})
                      /\ c.cached = with({"USE_CACHED"})
                      /\ c.errors = with({"ERROR"})
                      /\ c.extracted + c.cached + c.errors = n
                /\ args[r].cmd = "check" =>
                      /\ ok_count(results[r]) =
                            Cardinality({f \in audio_files[r] : tres[r][f].status = "PASSED"})
                      /\ ok_count(results[r]) + error_count(results[r]) = n
                      /\ Len(results[r]) = n

\* A track run over two files has ended with one file added and one, deleted
\* before its task looked at it, counted as an error.
C33_Witness ==
    \E r \in Runs :
        /\ pc[r] = "done" /\ args[r].cmd = "track"
        /\ Cardinality(audio_files[r]) = 2
        /\ counts[r].added = 1 /\ counts[r].errors = 1
        /\ \E f \in audio_files[r] : wres[r][f].action = "FILE_NOT_FOUND"

\* C34: once a check run has committed, the row of a file that it took from
\* the cache and that was not modified during the run is in the table it was
\* in when the run started, and in no other, with the status and the mtime it
\* had then.
C34_CachedRowIsKept ==
    \A r \in Runs, f \in Files :
        (/\ args[r].cmd = "check"
         /\ pc[r] \in {"report", "done"}
         /\ tdec[r][f].action = "USE_CACHED"
         /\ fs[f] = startFs[r][f])
        => \E t \in Tables :
              /\ f \in DOMAIN startStore[r][t]
              /\ f \in DOMAIN store[t]
              /\ store[t][f].status = startStore[r][t][f].status
              /\ store[t][f].mtime = startStore[r][t][f].mtime
              /\ \A u \in Tables \ {t} : f \notin DOMAIN store[u]

\* A cached failure has been written again by the run: same table, same
\* status and mtime, new last_checked.
C34_Witness ==
    \E r \in Runs, f \in Files :
        /\ pc[r] = "done"
        /\ tdec[r][f].action = "USE_CACHED"
        /\ fs[f] = startFs[r][f]
        /\ f \in DOMAIN startStore[r]["failed_files"]
        /\ f \in DOMAIN store["failed_files"]
        /\ store["failed_files"][f].last_checked = r
        /\ startStore[r]["failed_files"][f].last_checked # r

\* C35: list_database_entries with verify set classifies each listed entry
\* by the state of its file: MISSING when the file does not exist, ERROR when
\* it exists and cannot be read, CHANGED when it can be read and its hash is
\* not the stored one, and PASSED or FAILED after its table otherwise.
C35_VerifyClassifiesByFileState ==
    (/\ pureFn = "list_database_entries" /\ dbOnce.called
     /\ dbArg.verify /\ dbOnce.out.raised = "")
    => \A e \in dbOnce.out.all_entries :
          LET f == e.file_path
              table_status == IF f \in {row.file_path : row \in dbArg.db["passed_files"].rows}
                              THEN "PASSED" ELSE "FAILED"
          IN  e.entry_status =
                  IF ~fs[f].exists THEN "MISSING"
                  ELSE IF f \in dbArg.unreadable THEN "ERROR"
                  ELSE IF fs[f].content # e.stored_hash THEN "CHANGED"
                  ELSE table_status

====
